---- MODULE Spec2Model ----
(***************************************************************************)
(* A model of the simulation core of modeldrop (modeldrop/basemodel.py)    *)
(* together with the model classes built on it:                            *)
(*   StandardThreePartEpidemiologyModel (modeldrop/epi.py)  - flows, aux   *)
(*   LoktaVolterraEcologyModel (modeldrop/ecology.py)       - hand-written *)
(*                                                            derivatives  *)
(*   TurchinDemographicStateModel (modeldrop/turchin.py)    - a function   *)
(*                                                            registered   *)
(*                                                            by init_vars *)
(*   GoodwinBusinessCycleModel (modeldrop/goodwin.py)       - a function   *)
(*                                                            registered   *)
(*                                                            by setup     *)
(*   TurchinFathersAndSonsModel (modeldrop/fathers.py)      - age cohorts  *)
(* and with the slider callback of the dashboard (modeldrop/app.py).       *)
(*                                                                         *)
(* Numbers.  Python floats are modelled as integers of bounded magnitude:  *)
(* a result beyond MaxFloat overflows to +/-inf as an IEEE double does, and*)
(* `/` rounds toward minus infinity.  inf, nan and Python's None are coded *)
(* as integers outside the finite range so that a vector entry is always   *)
(* an integer.  Python float division by zero raises ZeroDivisionError;    *)
(* numpy.float64 division by zero yields inf/nan (the operands are numpy   *)
(* scalars inside the odeint callback and when replaying its output).      *)
(***************************************************************************)
EXTENDS Integers, Sequences, FiniteSets, TLC

VARIABLES
    cls,             \* the model class and its declaration overlay
    param,           \* self.param
    var,             \* self.var
    dvar,            \* self.dvar
    aux_var,         \* self.aux_var
    fn,              \* self.fn: the registered closures by name
    aux_var_flows,   \* self.aux_var_flows
    param_flows,     \* self.param_flows
    plots,           \* self.plots
    editable_params, \* self.editable_params (the "key" of each descriptor)
    editable_max,    \* self.editable_params (the "max" of each descriptor)
    times,           \* self.times
    keys,            \* self.keys
    pops,            \* self.pops of the cohort model: the state names by group
    solution,        \* self.solution
    ndarray,         \* TRUE when self.solution holds numpy columns of odeint
    pc,              \* the caller's last call on the instance
    err,             \* the exception that call raised, or NoErr
    graph,           \* what the last make_fn_graph call returned
    other,           \* a second instance, when the caller has constructed one
    is_running,      \* DashModelAdaptor.is_running
    thread           \* where each thread serving a slider callback is

vars == <<cls, param, var, dvar, aux_var, fn, aux_var_flows, param_flows,
          plots, editable_params, editable_max, times, keys, pops, solution,
          ndarray, pc, err, graph, other, is_running, thread>>

\* what lies outside the instance
outside == <<graph, other, is_running, thread>>

----------------------------------------------------------------------------
(* Bounds *)

\* largest finite magnitude of a float
MaxFloat == 40
\* how many times calc_aux_var_solutions is replayed on one run's store
MaxReplay == 2

----------------------------------------------------------------------------
(* Float values *)

PosInf == MaxFloat + 1
NegInf == 0 - (MaxFloat + 1)
NaN == MaxFloat + 2
None == MaxFloat + 3

\* math.isfinite / numpy.isfinite on a float
IsFinite(x) == x >= 0 - MaxFloat /\ x <= MaxFloat

IsInf(x) == x = PosInf \/ x = NegInf

Sign(x) == IF x = 0 THEN 0 ELSE IF x = NegInf \/ (IsFinite(x) /\ x < 0) THEN 0 - 1 ELSE 1

\* rounding of an exact result into the float range
Norm(x) == IF x > MaxFloat THEN PosInf ELSE IF x < 0 - MaxFloat THEN NegInf ELSE x

FNeg(a) == IF a = NaN THEN NaN ELSE 0 - a

FAdd(a, b) ==
    IF a = NaN \/ b = NaN THEN NaN
    ELSE IF IsInf(a) /\ IsInf(b) THEN (IF a = b THEN a ELSE NaN)
    ELSE IF IsInf(a) THEN a
    ELSE IF IsInf(b) THEN b
    ELSE Norm(a + b)

FSub(a, b) == FAdd(a, FNeg(b))

FMul(a, b) ==
    IF a = NaN \/ b = NaN THEN NaN
    ELSE IF IsInf(a) \/ IsInf(b)
         THEN (IF a = 0 \/ b = 0 THEN NaN
               ELSE IF Sign(a) * Sign(b) > 0 THEN PosInf ELSE NegInf)
    ELSE Norm(a * b)

\* floor division of finite integers, any sign of the divisor
IDiv(a, b) == IF b > 0 THEN a \div b ELSE (0 - a) \div (0 - b)

\* a / b where b # 0, or where a numpy operand makes b = 0 yield inf/nan
FDiv(a, b) ==
    IF a = NaN \/ b = NaN THEN NaN
    ELSE IF b = 0 THEN (IF a = 0 THEN NaN ELSE IF Sign(a) > 0 THEN PosInf ELSE NegInf)
    ELSE IF IsInf(a) /\ IsInf(b) THEN NaN
    ELSE IF IsInf(a) THEN (IF Sign(a) * Sign(b) > 0 THEN PosInf ELSE NegInf)
    ELSE IF IsInf(b) THEN 0
    ELSE Norm(IDiv(a, b))

\* a < b on floats: False when either side is nan
FLess(a, b) == a # NaN /\ b # NaN /\ a < b

----------------------------------------------------------------------------
(* AttrDict: a dict from names to values *)

EmptyDict == [k \in {} |-> 0]

Put(d, k, v) == [x \in (DOMAIN d) \cup {k} |-> IF x = k THEN v ELSE d[x]]

\* sum(d.values()) folded over the keys of d
RECURSIVE SumOver(_, _)
SumOver(d, ks) ==
    IF ks = {} THEN 0
    ELSE LET k == CHOOSE x \in ks : TRUE
         IN FAdd(d[k], SumOver(d, ks \ {k}))

SumValues(d) == SumOver(d, DOMAIN d)

HasNone(d) == \E k \in DOMAIN d : d[k] = None

----------------------------------------------------------------------------
(* Exceptions *)

NoErr == [type |-> "none", key |-> ""]
Raise(t, k) == [type |-> t, key |-> k]

\* no attribute self.keys: __init__ sets none, run and chunky_run set it
\* after the consistency check
NoKeys == {"no attribute"}

\* no graph returned yet; no second instance
NoGraph == [xvals |-> <<>>, yvals |-> <<>>, label |-> ""]
NoOther == [cls |-> ""]

----------------------------------------------------------------------------
(* The model classes: setup(), init_vars(), calc_aux_vars(), calc_dvars() *)

Epi == "StandardThreePartEpidemiologyModel"
Ecology == "LoktaVolterraEcologyModel"
Turchin == "TurchinDemographicStateModel"
Goodwin == "GoodwinBusinessCycleModel"
Fathers == "TurchinFathersAndSonsModel"

\* A plot descriptor: "vars" (empty when the descriptor has none) and "fn"
\* ("" when the descriptor has none)
VarsPlot(title, vs) == [title |-> title, vars |-> vs, fn |-> ""]
FnPlot(f) == [title |-> "", vars |-> <<>>, fn |-> f]

\* the "xlims" of every descriptor with "fn", scaled to a few sample points
Xlims == <<0, 4>>

\* BaseModel.__init__ defaults, then the class's setup(); durations,
\* populations and rates are scaled down to a few steps, a few individuals
\* and whole numbers
EpiSetupParam ==
    [time |-> 3, dt |-> 1, initialPopulation |-> 4, initialPrevalence |-> 1,
     recoverRate |-> 0, reproductionNumber |-> 8, infectiousPeriod |-> 1]

EcologySetupParam ==
    [time |-> 3, dt |-> 1, initialPrey |-> 2, initialPredator |-> 1,
     preyGrowthRate |-> 1, predationRate |-> 1, digestionRate |-> 1,
     predatorDeathRate |-> 1]

TurchinSetupParam ==
    [time |-> 3, dt |-> 1, maxSurplus |-> 1, taxOnSurplus |-> 1, growth |-> 1,
     expenditurePerCapita |-> 1, stateRevenueAtHalfCapacity |-> 2,
     maxCarryCapacity |-> 3]

GoodwinSetupParam ==
    [time |-> 3, dt |-> 1, accelerator |-> 3, depreciation |-> 0,
     productivityRate |-> 1, birthRate |-> 1]

\* nAge is scaled down to two cohorts
FathersSetupParam ==
    [time |-> 3, dt |-> 1, nAge |-> 2, radicalisation |-> 1, aversion |-> 1,
     disenchantment |-> 1, delay |-> 1]

SetupParam(c) ==
    IF c.name = Epi THEN EpiSetupParam
    ELSE IF c.name = Fathers THEN FathersSetupParam
    ELSE IF c.name = Turchin THEN TurchinSetupParam
    ELSE IF c.name = Goodwin THEN GoodwinSetupParam
    ELSE EcologySetupParam

EpiAuxVarFlows == << <<"susceptible", "infectious", "rateForce">> >>
EpiParamFlows == << <<"infectious", "recovered", "recoverRate">> >>

SetupAuxVarFlows(c) == IF c.name = Epi THEN EpiAuxVarFlows ELSE <<>>
SetupParamFlows(c) == IF c.name = Epi THEN EpiParamFlows ELSE <<>>

EpiPlots ==
    << VarsPlot("Populations", <<"susceptible", "infectious", "recovered">>),
       VarsPlot("Effective Reproduction Number", <<"rn">>) >>

EcologyPlots == << VarsPlot("ecology", <<"predator", "prey">>) >>

TurchinPlots ==
    << VarsPlot("People", <<"populationDensity", "carryingCapacity">>),
       FnPlot("carryingCapacityFn"),
       VarsPlot("Surplus", <<"surplus">>),
       VarsPlot("State Revenue", <<"stateRevenue">>) >>

GoodwinPlots ==
    << VarsPlot("Share", <<"wageShare", "profitShare">>),
       VarsPlot("Output", <<"output", "wages", "capital">>),
       VarsPlot("People", <<"population", "labor">>),
       FnPlot("wageChangeFn") >>

\* f"{group}_{age}"
Digits == <<"0", "1", "2">>
Cohort(group, age) == group \o "_" \o Digits[age + 1]

\* [f"{group}_{age}" for age in range(n)]
CohortNames(group, n) == [i \in 1..n |-> Cohort(group, i - 1)]

\* self.groups
Groups == <<"naive", "moderate", "radical">>

\* the "vars" of the group plots are the lists self.pops held when
\* setup_ui() ran
FathersPlots ==
    << VarsPlot("All", <<"naive_total", "radical_total", "moderate_total">>),
       VarsPlot("Naive Age Groups", CohortNames("naive", FathersSetupParam.nAge)),
       VarsPlot("Radical Age Groups", CohortNames("radical", FathersSetupParam.nAge)),
       VarsPlot("Moderate Age Groups", CohortNames("moderate", FathersSetupParam.nAge)) >>

SetupPlots(c) ==
    IF c.name = Epi THEN EpiPlots
    ELSE IF c.name = Fathers THEN FathersPlots
    ELSE IF c.name = Turchin THEN TurchinPlots
    ELSE IF c.name = Goodwin THEN GoodwinPlots
    ELSE EcologyPlots

EpiEditableParams ==
    <<"time", "infectiousPeriod", "reproductionNumber", "initialPrevalence",
      "initialPopulation">>

EcologyEditableParams ==
    <<"time", "initialPrey", "initialPredator", "preyGrowthRate", "predationRate",
      "predatorDeathRate", "digestionRate">>

TurchinEditableParams ==
    <<"time", "maxSurplus", "taxOnSurplus", "growth", "stateRevenueAtHalfCapacity",
      "maxCarryCapacity">>

GoodwinEditableParams ==
    <<"time", "birthRate", "accelerator", "depreciation", "productivityRate">>

\* time and nAge, then what extract_editable_params() appends
FathersEditableParams ==
    <<"time", "nAge", "radicalisation", "aversion", "disenchantment", "delay">>

SetupEditableParams(c) ==
    IF c.name = Epi THEN EpiEditableParams
    ELSE IF c.name = Fathers THEN FathersEditableParams
    ELSE IF c.name = Turchin THEN TurchinEditableParams
    ELSE IF c.name = Goodwin THEN GoodwinEditableParams
    ELSE EcologyEditableParams

\* the "max" of the descriptors, in the order of the keys and scaled like
\* the parameters
EpiEditableMax == <<10, 10, 15, 40, 40>>
EcologyEditableMax == <<3, 20, 20, 2, 2, 2, 2>>

TurchinEditableMax == <<10, 2, 2, 2, 20, 10>>
GoodwinEditableMax == <<10, 2, 5, 2, 2>>

FathersEditableMax == <<10, 2, 5, 5, 5, 5>>

SetupEditableMax(c) ==
    IF c.name = Epi THEN EpiEditableMax
    ELSE IF c.name = Fathers THEN FathersEditableMax
    ELSE IF c.name = Turchin THEN TurchinEditableMax
    ELSE IF c.name = Goodwin THEN GoodwinEditableMax
    ELSE EcologyEditableMax

\* The closures held in self.fn, as records of the maker and the values it
\* captured.
\* make_approach_fn(y_init, y_final, x_at_midpoint)
make_approach_fn(y_init, y_final, x_at_midpoint) ==
    [maker |-> "approach", a |-> y_init, b |-> y_final, c |-> x_at_midpoint,
     d |-> 0, x_max |-> 0, y_max |-> 0]

\* fn(x) of make_sq_fn(A, B, C, D): A / num / num - D with num = B - C * x
SqFn(A, B, C, D, x) ==
    FSub(FDiv(FDiv(A, FSub(B, FMul(C, x))), FSub(B, FMul(C, x))), D)

\* make_cutoff_fn(make_sq_fn(A, B, C, D), x_max); y_max = fn(x_max)
make_cutoff_sq_fn(A, B, C, D, x_max) ==
    [maker |-> "cutoff_sq", a |-> A, b |-> B, c |-> C, d |-> D, x_max |-> x_max,
     y_max |-> SqFn(A, B, C, D, x_max)]

\* the call f(x) divides a Python number by zero; np: x is a numpy scalar
CallRaises(f, x, np) ==
    /\ ~np
    /\ IF f.maker = "approach" THEN ~FLess(x, 0) /\ FAdd(f.c, x) = 0
       ELSE ~FLess(f.x_max, x) /\ FSub(f.b, FMul(f.c, x)) = 0

\* the value of the call f(x)
Call(f, x) ==
    IF f.maker = "approach"
    THEN IF FLess(x, 0) THEN f.a
         ELSE FAdd(f.a, FMul(FSub(f.b, f.a), FDiv(x, FAdd(f.c, x))))
    ELSE IF FLess(f.x_max, x) THEN f.y_max
         ELSE IF FLess(f.y_max, SqFn(f.a, f.b, f.c, f.d, x)) THEN f.y_max
         ELSE SqFn(f.a, f.b, f.c, f.d, x)

\* self.fn after BaseModel.__init__ and the class's setup()
GoodwinFn == [wageChangeFn |-> make_cutoff_sq_fn(4, 4, 1, 1, 3)]

SetupFn(c) == IF c.name = Goodwin THEN GoodwinFn ELSE EmptyDict

\* An instance is a record m of the attributes of self, with m.err the
\* exception raised so far (NoErr when none); the methods map m to m
Failed(s, t, k) == [s EXCEPT !.err = Raise(t, k)]

\* init_vars() had it put the whole population into susceptible
EpiInitVarsWhole(s) ==
    IF s.param["infectiousPeriod"] = 0 THEN Failed(s, "ZeroDivisionError", "")
    ELSE LET rr == FDiv(1, s.param["infectiousPeriod"])
             p1 == Put(s.param, "recoverRate", rr)
             p2 == Put(p1, "contactRate", FMul(p1["reproductionNumber"], rr))
             v1 == Put(s.var, "infectious", p2["initialPrevalence"])
             v2 == Put(v1, "susceptible", p2["initialPopulation"])
             v3 == Put(v2, "recovered", 0)
         IN [s EXCEPT !.param = p2, !.var = v3]

\* init_vars(): param values are Python numbers, so 1 / 0 raises
EpiInitVars(s) ==
    IF s.param["infectiousPeriod"] = 0 THEN Failed(s, "ZeroDivisionError", "")
    ELSE LET rr == FDiv(1, s.param["infectiousPeriod"])
             p1 == Put(s.param, "recoverRate", rr)
             p2 == Put(p1, "contactRate", FMul(p1["reproductionNumber"], rr))
             v1 == Put(s.var, "infectious", p2["initialPrevalence"])
             v2 == Put(v1, "susceptible",
                       FSub(p2["initialPopulation"], p2["initialPrevalence"]))
             v3 == Put(v2, "recovered", 0)
         IN [s EXCEPT !.param = p2, !.var = v3]

EcologyInitVars(s) ==
    LET v1 == Put(s.var, "predator", s.param["initialPredator"])
        v2 == Put(v1, "prey", s.param["initialPrey"])
    IN [s EXCEPT !.var = v2]

TurchinInitVars(s) ==
    LET f == make_approach_fn(1, s.param["maxCarryCapacity"],
                              s.param["stateRevenueAtHalfCapacity"])
        v1 == Put(s.var, "populationDensity", 1)
        v2 == Put(v1, "stateRevenue", 0)
    IN [s EXCEPT !.fn = Put(s.fn, "carryingCapacityFn", f), !.var = v2]

GoodwinInitVars(s) ==
    LET v1 == Put(s.var, "wage", 1)
        v2 == Put(v1, "productivity", 1)
        v3 == Put(v2, "population", 4)
        v4 == Put(v3, "labor", 3)
    IN [s EXCEPT !.var = v4]

\* the share of the population that init_vars() puts into a group: 0.5,
\* 0.1 and 0.4, scaled by 40
GroupShare(group) == IF group = "naive" THEN 20 ELSE IF group = "radical" THEN 4 ELSE 16

\* for age in range(nAge): for group in self.groups: self.var[key] = share / nAge
FathersCohortVars(v, n) ==
    [k \in (DOMAIN v) \cup {Cohort(Groups[g], a) : g \in 1..3, a \in 0..(n - 1)} |->
        IF \E g \in 1..3 : \E a \in 0..(n - 1) : k = Cohort(Groups[g], a)
        THEN FDiv(GroupShare(Groups[CHOOSE g \in 1..3 :
                                       \E a \in 0..(n - 1) : k = Cohort(Groups[g], a)]),
                  n)
        ELSE v[k]]

\* init_vars(): self.pops is rebuilt; no name is removed from self.var
FathersInitVars(s) ==
    [s EXCEPT !.pops = [g \in {"naive", "moderate", "radical"} |->
                           CohortNames(g, s.param["nAge"])],
              !.var = FathersCohortVars(s.var, s.param["nAge"])]

ClassInitVars(s) ==
    IF s.cls.name = Epi THEN EpiInitVars(s)
    ELSE IF s.cls.name = Fathers THEN FathersInitVars(s)
    ELSE IF s.cls.name = Turchin THEN TurchinInitVars(s)
    ELSE IF s.cls.name = Goodwin THEN GoodwinInitVars(s)
    ELSE EcologyInitVars(s)

\* s.cls.var_only: a subclass whose init_vars also sets a state variable "orphan"
OrphanVar(r) ==
    IF r.err = NoErr /\ r.cls.var_only
    THEN [r EXCEPT !.var = Put(r.var, "orphan", 0)]
    ELSE r

InitVars(s) == OrphanVar(ClassInitVars(s))

\* the call F made when nothing has been raised so far
Then(m, F(_)) == IF m.err # NoErr THEN m ELSE F(m)

\* calc_aux_vars() had it kept an rn that the auxiliary vector already holds
EpiCalcAuxVarsKeepRn(s, np) ==
    IF HasNone(s.var) THEN Failed(s, "TypeError", "")
    ELSE LET pop == SumValues(s.var)
             a1 == Put(s.aux_var, "population", pop)
         IN IF ~np /\ pop = 0
            THEN [s EXCEPT !.aux_var = a1, !.err = Raise("ZeroDivisionError", "")]
            ELSE LET a2 == Put(a1, "rateForce",
                               FMul(FDiv(s.param["contactRate"], pop),
                                    s.var["infectious"]))
                     a3 == Put(a2, "rn",
                               IF "rn" \in DOMAIN s.aux_var THEN s.aux_var["rn"]
                               ELSE FMul(FDiv(s.var["susceptible"], pop),
                                         s.param["reproductionNumber"]))
                 IN [s EXCEPT !.aux_var = a3]

\* calc_aux_vars(); np: the state values are numpy.float64 scalars
EpiCalcAuxVars(s, np) ==
    IF HasNone(s.var) THEN Failed(s, "TypeError", "")
    ELSE LET pop == SumValues(s.var)
             a1 == Put(s.aux_var, "population", pop)
         IN IF ~np /\ pop = 0
            THEN [s EXCEPT !.aux_var = a1, !.err = Raise("ZeroDivisionError", "")]
            ELSE LET a2 == Put(a1, "rateForce",
                               FMul(FDiv(s.param["contactRate"], pop),
                                    s.var["infectious"]))
                     a3 == Put(a2, "rn",
                               FMul(FDiv(s.var["susceptible"], pop),
                                    s.param["reproductionNumber"]))
                 IN [s EXCEPT !.aux_var = a3]

\* a value of None in an arithmetic expression
NoneIn(d, ks) == \E k \in ks : d[k] = None

TurchinCalcAuxVars(s, np) ==
    IF NoneIn(s.var, {"stateRevenue", "populationDensity"}) THEN Failed(s, "TypeError", "")
    ELSE IF CallRaises(s.fn["carryingCapacityFn"], s.var["stateRevenue"], np)
    THEN Failed(s, "ZeroDivisionError", "")
    ELSE LET cc == Call(s.fn["carryingCapacityFn"], s.var["stateRevenue"])
             a1 == Put(s.aux_var, "carryingCapacity", cc)
         IN IF ~np /\ cc = 0
            THEN [s EXCEPT !.aux_var = a1, !.err = Raise("ZeroDivisionError", "")]
            ELSE [s EXCEPT !.aux_var =
                     Put(a1, "surplus",
                         FMul(s.param["maxSurplus"],
                              FSub(1, FDiv(s.var["populationDensity"], cc))))]

\* laborFraction, output, capital and wages
GoodwinOutput(s) ==
    LET a1 == Put(s.aux_var, "laborFraction",
                  FDiv(s.var["labor"], s.var["population"]))
        a2 == Put(a1, "output", FMul(s.var["labor"], s.var["productivity"]))
        a3 == Put(a2, "capital", FMul(a2["output"], s.param["accelerator"]))
    IN Put(a3, "wages", FMul(s.var["labor"], s.var["wage"]))

\* wageShare and profitShare
GoodwinShares(a4) ==
    LET a5 == Put(a4, "wageShare", FDiv(a4["wages"], a4["output"]))
    IN Put(a5, "profitShare", FSub(1, a5["wageShare"]))

GoodwinCalcAuxVars(s, np) ==
    IF NoneIn(s.var, {"labor", "population", "productivity", "wage"})
    THEN Failed(s, "TypeError", "")
    ELSE IF ~np /\ s.var["population"] = 0 THEN Failed(s, "ZeroDivisionError", "")
    ELSE IF ~np /\ GoodwinOutput(s)["output"] = 0
    THEN [s EXCEPT !.aux_var = GoodwinOutput(s), !.err = Raise("ZeroDivisionError", "")]
    ELSE [s EXCEPT !.aux_var = GoodwinShares(GoodwinOutput(s))]

\* sum of the values of the names ns that are not None
RECURSIVE SumNotNone(_, _)
SumNotNone(v, ns) ==
    IF ns = <<>> THEN 0
    ELSE IF v[Head(ns)] = None THEN SumNotNone(v, Tail(ns))
    ELSE FAdd(v[Head(ns)], SumNotNone(v, Tail(ns)))

\* self.solution[key][-i]: the i-th entry from the end, the first when i = 0
FromEnd(q, i) == IF i = 0 THEN q[1] ELSE q[Len(q) + 1 - i]

\* the entries that the loop over self.pops.radical adds up
Delayed(s, i) ==
    [j \in 1..Len(s.pops["radical"]) |->
        IF s.pops["radical"][j] \in DOMAIN s.solution
           /\ Len(s.solution[s.pops["radical"][j]]) > i
        THEN FromEnd(s.solution[s.pops["radical"][j]], i)
        ELSE 0]

RECURSIVE SumSeq(_)
SumSeq(q) == IF q = <<>> THEN 0 ELSE FAdd(Head(q), SumSeq(Tail(q)))

\* the group totals
FathersTotals(s) ==
    [k \in (DOMAIN s.aux_var) \cup {"naive_total", "moderate_total", "radical_total"} |->
        IF k = "naive_total" THEN SumNotNone(s.var, s.pops["naive"])
        ELSE IF k = "moderate_total" THEN SumNotNone(s.var, s.pops["moderate"])
        ELSE IF k = "radical_total" THEN SumNotNone(s.var, s.pops["radical"])
        ELSE s.aux_var[k]]

\* radical_total_delayed, rho and sigma
FathersRates(s, a, delayed) ==
    Put(Put(Put(a, "radical_total_delayed", delayed),
            "rho", FMul(s.param["disenchantment"], delayed)),
        "sigma", FMul(a["radical_total"],
                      FSub(s.param["radicalisation"],
                           FMul(s.param["aversion"], a["moderate_total"]))))

\* calc_aux_vars(); i = int(self.param.delay / self.param.dt)
FathersCalcAuxVars(s) ==
    IF s.param["dt"] = 0
    THEN [s EXCEPT !.aux_var = FathersTotals(s), !.err = Raise("ZeroDivisionError", "")]
    ELSE IF \E j \in 1..Len(s.pops["radical"]) :
                Delayed(s, FDiv(s.param["delay"], s.param["dt"]))[j] = None
    THEN [s EXCEPT !.aux_var = Put(FathersTotals(s), "radical_total_delayed", 0),
                   !.err = Raise("TypeError", "")]
    ELSE [s EXCEPT !.aux_var =
             FathersRates(s, FathersTotals(s),
                          SumSeq(Delayed(s, FDiv(s.param["delay"], s.param["dt"]))))]

ClassCalcAuxVars(s, np) ==
    IF s.cls.name = Epi THEN EpiCalcAuxVars(s, np)
    ELSE IF s.cls.name = Fathers THEN FathersCalcAuxVars(s)
    ELSE IF s.cls.name = Turchin THEN TurchinCalcAuxVars(s, np)
    ELSE IF s.cls.name = Goodwin THEN GoodwinCalcAuxVars(s, np)
    ELSE s

\* s.cls.aux_shadow: a subclass whose calc_aux_vars also sets an auxiliary
\* variable under the name of one of its state variables
ShadowAux(r) ==
    IF r.err = NoErr /\ r.cls.aux_shadow /\ DOMAIN r.var # {}
    THEN [r EXCEPT !.aux_var = Put(r.aux_var, CHOOSE k \in DOMAIN r.var : TRUE, 0)]
    ELSE r

\* calc_aux_vars(); np: the state values are numpy.float64 scalars
CalcAuxVars(s, np) == ShadowAux(ClassCalcAuxVars(s, np))

----------------------------------------------------------------------------
(* BaseModel.add_to_dvars_from_flows *)

\* the first rate name of the flow list that the dict d lacks, or ""
RECURSIVE MissingRate(_, _)
MissingRate(flows, d) ==
    IF flows = <<>> THEN ""
    ELSE IF Head(flows)[3] \notin DOMAIN d THEN Head(flows)[3]
    ELSE MissingRate(Tail(flows), d)

\* the list `flows` of [from_key, to_key, val]
FlowList(aflows, pflows, aux, par) ==
    [i \in 1..Len(aflows) |-> <<aflows[i][1], aflows[i][2], aux[aflows[i][3]]>>]
    \o [i \in 1..Len(pflows) |-> <<pflows[i][1], pflows[i][2], par[pflows[i][3]]>>]

\* the flow loop had it credited to_key without debiting from_key
RECURSIVE ApplyFlowsOneSided(_, _)
ApplyFlowsOneSided(d, flows) ==
    IF flows = <<>> THEN [dvar |-> d, err |-> NoErr]
    ELSE LET f == Head(flows)
         IN IF f[1] \notin DOMAIN d THEN [dvar |-> d, err |-> Raise("KeyError", f[1])]
            ELSE IF f[2] \notin DOMAIN d
                 THEN [dvar |-> d, err |-> Raise("KeyError", f[2])]
                 ELSE ApplyFlowsOneSided([d EXCEPT ![f[2]] = FAdd(d[f[2]], f[3])],
                                         Tail(flows))

\* the flow loop had it assign the rate to both entries
RECURSIVE ApplyFlowsOverwrite(_, _)
ApplyFlowsOverwrite(d, flows) ==
    IF flows = <<>> THEN [dvar |-> d, err |-> NoErr]
    ELSE LET f == Head(flows)
         IN IF f[1] \notin DOMAIN d THEN [dvar |-> d, err |-> Raise("KeyError", f[1])]
            ELSE IF f[2] \notin DOMAIN d
                 THEN [dvar |-> d, err |-> Raise("KeyError", f[2])]
                 ELSE ApplyFlowsOverwrite([d EXCEPT ![f[1]] = FNeg(f[3]), ![f[2]] = f[3]],
                                          Tail(flows))

\* for (from_key, to_key, val) in flows: dvar[from_key] -= val; dvar[to_key] += val
RECURSIVE ApplyFlows(_, _)
ApplyFlows(d, flows) ==
    IF flows = <<>> THEN [dvar |-> d, err |-> NoErr]
    ELSE LET f == Head(flows)
         IN IF f[1] \notin DOMAIN d THEN [dvar |-> d, err |-> Raise("KeyError", f[1])]
            ELSE LET d1 == [d EXCEPT ![f[1]] = FSub(d[f[1]], f[3])]
                 IN IF f[2] \notin DOMAIN d1
                    THEN [dvar |-> d1, err |-> Raise("KeyError", f[2])]
                    ELSE ApplyFlows([d1 EXCEPT ![f[2]] = FAdd(d1[f[2]], f[3])],
                                    Tail(flows))

AddToDvarsFromFlows(d, aux, par, aflows, pflows) ==
    IF MissingRate(aflows, aux) # ""
    THEN [dvar |-> d, err |-> Raise("KeyError", MissingRate(aflows, aux))]
    ELSE IF MissingRate(pflows, par) # ""
    THEN [dvar |-> d, err |-> Raise("KeyError", MissingRate(pflows, par))]
    ELSE ApplyFlows(d, FlowList(aflows, pflows, aux, par))

----------------------------------------------------------------------------
(* calc_dvars() *)

\* calc_dvars had it zeroed only the derivatives that the vector lacks
EpiCalcDvarsKeep(s) ==
    LET kept == [k \in (DOMAIN s.dvar) \cup (DOMAIN s.var) |->
                    IF k \in DOMAIN s.dvar THEN s.dvar[k] ELSE 0]
        r == AddToDvarsFromFlows(kept, s.aux_var, s.param,
                                 s.aux_var_flows, s.param_flows)
    IN [s EXCEPT !.dvar = r.dvar, !.err = r.err]

\* for key in self.var.keys(): self.dvar[key] = 0; self.add_to_dvars_from_flows()
EpiCalcDvars(s) ==
    LET zeroed == [k \in (DOMAIN s.dvar) \cup (DOMAIN s.var) |->
                      IF k \in DOMAIN s.var THEN 0 ELSE s.dvar[k]]
        r == AddToDvarsFromFlows(zeroed, s.aux_var, s.param,
                                 s.aux_var_flows, s.param_flows)
    IN [s EXCEPT !.dvar = r.dvar, !.err = r.err]

EcologyCalcDvars(s) ==
    LET prey == s.var["prey"]
        predator == s.var["predator"]
        d1 == Put(s.dvar, "prey",
                  FSub(FMul(prey, s.param["preyGrowthRate"]),
                       FMul(FMul(s.param["predationRate"], prey), predator)))
        d2 == Put(d1, "predator",
                  FSub(FMul(FMul(s.param["digestionRate"], prey), predator),
                       FMul(predator, s.param["predatorDeathRate"])))
    IN [s EXCEPT !.dvar = d2]

\* if self.dvar.stateRevenue + self.var.stateRevenue < 0:
\*     self.dvar.stateRevenue = -self.var.stateRevenue
Floor(dsr, sr) == IF FLess(FAdd(dsr, sr), 0) THEN FNeg(sr) ELSE dsr

TurchinCalcDvars(s) ==
    LET pd == s.var["populationDensity"]
        d1 == Put(s.dvar, "populationDensity",
                  FMul(FMul(s.param["growth"], pd), s.aux_var["surplus"]))
        dsr == FSub(FMul(FMul(s.param["taxOnSurplus"], pd), s.aux_var["surplus"]),
                    FMul(s.param["expenditurePerCapita"], pd))
    IN [s EXCEPT !.dvar = Put(d1, "stateRevenue", Floor(dsr, s.var["stateRevenue"]))]

GoodwinCalcDvars(s, np) ==
    IF ~np /\ (s.var["productivity"] = 0 \/ s.param["accelerator"] = 0)
    THEN Failed(s, "ZeroDivisionError", "")
    ELSE LET d1 == Put(s.dvar, "labor",
                       FMul(s.var["labor"],
                            FSub(FSub(FDiv(FSub(1, FDiv(s.var["wage"],
                                                        s.var["productivity"])),
                                           s.param["accelerator"]),
                                      s.param["depreciation"]),
                                 s.param["productivityRate"])))
         IN IF CallRaises(s.fn["wageChangeFn"], s.aux_var["laborFraction"], np)
            THEN [s EXCEPT !.dvar = d1, !.err = Raise("ZeroDivisionError", "")]
            ELSE LET d2 == Put(d1, "wage",
                               FMul(Call(s.fn["wageChangeFn"], s.aux_var["laborFraction"]),
                                    s.var["wage"]))
                     d3 == Put(d2, "productivity",
                               FMul(s.param["productivityRate"], s.var["productivity"]))
                 IN [s EXCEPT !.dvar = Put(d3, "population",
                                            FMul(s.param["birthRate"],
                                                 s.var["population"]))]

\* the body of the loop `for j in range(1, self.param.nAge)` for one j
FathersAge(d, s, j) ==
    LET nj == Cohort("naive", j)
        rj == Cohort("radical", j)
        mj == Cohort("moderate", j)
        ni == s.var[Cohort("naive", j - 1)]
        ri == s.var[Cohort("radical", j - 1)]
        mi == s.var[Cohort("moderate", j - 1)]
        sigma == s.aux_var["sigma"]
        rho == s.aux_var["rho"]
    IN [d EXCEPT ![nj] = FAdd(@, FMul(ni, FSub(1, sigma))),
                 ![rj] = FAdd(FAdd(@, FMul(ri, FSub(1, rho))), FMul(ni, sigma)),
                 ![mj] = FAdd(FAdd(@, mi), FMul(ri, rho))]

RECURSIVE FathersAges(_, _, _)
FathersAges(d, s, j) ==
    IF j >= s.param["nAge"] THEN d ELSE FathersAges(FathersAge(d, s, j), s, j + 1)

\* for k in self.keys: self.dvar[k] = -self.var[k];
\* self.dvar["naive_0"] += 1.0 / self.param.nAge
FathersOutflow(s) ==
    [k \in s.keys |->
        IF k = "naive_0" THEN FAdd(FNeg(s.var[k]), FDiv(1, s.param["nAge"]))
        ELSE FNeg(s.var[k])]

\* calc_dvars(): self.dvar = {} comes first; self.keys is read next
FathersCalcDvars(s) ==
    IF s.keys = NoKeys
    THEN [s EXCEPT !.dvar = EmptyDict, !.err = Raise("AttributeError", "keys")]
    ELSE IF "naive_0" \notin s.keys
    THEN [s EXCEPT !.dvar = [k \in s.keys |-> FNeg(s.var[k])],
                   !.err = Raise("KeyError", "naive_0")]
    ELSE [s EXCEPT !.dvar = FathersAges(FathersOutflow(s), s, 1)]

ClassCalcDvars(s, np) ==
    IF s.cls.name = Epi THEN EpiCalcDvars(s)
    ELSE IF s.cls.name = Fathers THEN FathersCalcDvars(s)
    ELSE IF s.cls.name = Turchin THEN TurchinCalcDvars(s)
    ELSE IF s.cls.name = Goodwin THEN GoodwinCalcDvars(s, np)
    ELSE EcologyCalcDvars(s)

\* s.cls.dvar_only: a subclass whose calc_dvars also sets a derivative "ghost"
GhostDvar(r) ==
    IF r.err = NoErr /\ r.cls.dvar_only
    THEN [r EXCEPT !.dvar = Put(r.dvar, "ghost", 0)]
    ELSE r

\* calc_dvars(t); np: the state values are numpy.float64 scalars
CalcDvars(s, np) == GhostDvar(ClassCalcDvars(s, np))

CalcDvarsPy(s) == CalcDvars(s, FALSE)
CalcDvarsNp(s) == CalcDvars(s, TRUE)

----------------------------------------------------------------------------
(* BaseModel.check_consistency *)

\* the first name of the list ns that is not in the set S, or ""
RECURSIVE FirstNotIn(_, _)
FirstNotIn(ns, S) ==
    IF ns = <<>> THEN ""
    ELSE IF Head(ns) \notin S THEN Head(ns)
    ELSE FirstNotIn(Tail(ns), S)

\* the loop over self.plots: the key of the first failed check, or ""
RECURSIVE PlotFault(_, _, _)
PlotFault(ps, known, fns) ==
    IF ps = <<>> THEN ""
    ELSE LET p == Head(ps)
         IN IF FirstNotIn(p.vars, known) # "" THEN FirstNotIn(p.vars, known)
            ELSE IF p.fn # "" /\ p.fn \notin fns THEN p.fn
            ELSE PlotFault(Tail(ps), known, fns)

\* the loop over a flow list: the key of the first failed check, or ""
RECURSIVE FlowFault(_, _, _)
FlowFault(flows, vs, rates) ==
    IF flows = <<>> THEN ""
    ELSE LET f == Head(flows)
         IN IF f[1] \notin vs THEN f[1]
            ELSE IF f[2] \notin vs THEN f[2]
            ELSE IF f[3] \notin rates THEN f[3]
            ELSE FlowFault(Tail(flows), vs, rates)

\* check_consistency had it no loop over self.editable_params
DeclarationFaultNoEditable(s) ==
    LET V == DOMAIN s.var
        D == DOMAIN s.dvar
        A == DOMAIN s.aux_var
        P == DOMAIN s.param
    IN IF V \ D # {} THEN CHOOSE v \in V \ D : TRUE
       ELSE IF D \ V # {} THEN CHOOSE v \in D \ V : TRUE
       ELSE IF PlotFault(s.plots, V \cup A, DOMAIN s.fn) # ""
            THEN PlotFault(s.plots, V \cup A, DOMAIN s.fn)
       ELSE IF FlowFault(s.aux_var_flows, V, A) # ""
            THEN FlowFault(s.aux_var_flows, V, A)
       ELSE FlowFault(s.param_flows, V, P)

\* the checks that follow the throwaway evaluation, in the order of the
\* code: the key the raised Exception names, or "" when every check passes
DeclarationFault(s) ==
    LET V == DOMAIN s.var
        D == DOMAIN s.dvar
        A == DOMAIN s.aux_var
        P == DOMAIN s.param
    IN IF V \ D # {} THEN CHOOSE v \in V \ D : TRUE
       ELSE IF D \ V # {} THEN CHOOSE v \in D \ V : TRUE
       ELSE IF PlotFault(s.plots, V \cup A, DOMAIN s.fn) # ""
            THEN PlotFault(s.plots, V \cup A, DOMAIN s.fn)
       ELSE IF FirstNotIn(s.editable_params, P) # ""
            THEN FirstNotIn(s.editable_params, P)
       ELSE IF FlowFault(s.aux_var_flows, V, A) # ""
            THEN FlowFault(s.aux_var_flows, V, A)
       ELSE FlowFault(s.param_flows, V, P)

\* one evaluation: calc_aux_vars() then calc_dvars(t)
Evaluate(s, np) ==
    IF np THEN Then(CalcAuxVars(s, TRUE), CalcDvarsNp)
    ELSE Then(CalcAuxVars(s, FALSE), CalcDvarsPy)

\* the throwaway evaluation of check_consistency, on Python numbers
Throwaway(s) == Evaluate(s, FALSE)

RaiseFault(e, k) == IF k # "" THEN Failed(e, "Exception", k) ELSE e

Checks(e) == RaiseFault(e, DeclarationFault(e))

CheckConsistency(s) == Then(Then(InitVars(s), Throwaway), Checks)

----------------------------------------------------------------------------
(* The time grid *)

\* float_range had its loop been `while start <= stop`
RECURSIVE float_range_closed(_, _, _)
float_range_closed(start, stop, step) ==
    IF FLess(start, stop) \/ start = stop
    THEN <<start>> \o float_range_closed(FAdd(start, step), stop, step)
    ELSE <<>>

\* list(float_range(start, stop, step)); the loop ends only when step > 0
RECURSIVE float_range(_, _, _)
float_range(start, stop, step) ==
    IF FLess(start, stop)
    THEN <<start>> \o float_range(FAdd(start, step), stop, step)
    ELSE <<>>

\* self.times = None
NoTimes == <<None>>

----------------------------------------------------------------------------
(* Integration *)

\* the named state with the values of the flat vector y written into it
Load(v, y) == [k \in (DOMAIN v) \cup (DOMAIN y) |-> IF k \in DOMAIN y THEN y[k] ELSE v[k]]

\* calc_dvar_array(var_array, t) of scipy_integrate: m with the derivative in
\* m.dvar, or with m.err set when a hook raises
calc_dvar_array(m, y) == Evaluate([m EXCEPT !.var = Load(m.var, y)], TRUE)

\* one explicit step of the solver from the row y with the derivative e.dvar
Step(y, e, h) == [k \in DOMAIN y |-> FAdd(y[k], FMul(e.dvar[k], h))]

\* odeint(calc_dvar_array, y_init, self.times): the library solver, taken as
\* one explicit step per output interval.  rows[i] is the state at ts[i];
\* rows[1] is y_init.  An exception of the callback propagates.
RECURSIVE odeint(_, _, _, _)
OdeintNext(e, rows, ts, i) ==
    IF e.err # NoErr THEN [m |-> e, rows |-> rows]
    ELSE odeint(e, Append(rows, Step(rows[i - 1], e, FSub(ts[i], ts[i - 1]))), ts, i + 1)

odeint(m, rows, ts, i) ==
    IF i > Len(ts) THEN [m |-> m, rows |-> rows]
    ELSE OdeintNext(calc_dvar_array(m, rows[i - 1]), rows, ts, i)

\* the columns self.output[:, i] by key
Columns(rows, ks) == [k \in ks |-> [i \in 1..Len(rows) |-> rows[i][k]]]

\* for i, key in enumerate(self.keys): self.solution[key] = self.output[:, i]
StoreOutput(o, ks) ==
    IF o.m.err # NoErr THEN o.m
    ELSE [o.m EXCEPT !.solution = Load(o.m.solution, Columns(o.rows, ks)),
                     !.ndarray = TRUE]

scipy_integrate(m) ==
    StoreOutput(IF m.times = <<>> THEN [m |-> m, rows |-> <<>>]
                ELSE odeint(m, <<[k \in m.keys |-> m.var[k]]>>, m.times, 2),
                m.keys)

\* for key in self.dvar.keys(): self.var[key] += self.dvar[key] * self.param.dt
Advance(d) ==
    IF (DOMAIN d.dvar) \ (DOMAIN d.var) # {}
    THEN Failed(d, "KeyError", CHOOSE k \in (DOMAIN d.dvar) \ (DOMAIN d.var) : TRUE)
    ELSE [d EXCEPT !.var = [k \in DOMAIN d.var |->
             IF k \in DOMAIN d.dvar
             THEN FAdd(d.var[k], FMul(d.dvar[k], d.param["dt"]))
             ELSE d.var[k]]]

\* BaseModel.update: calc_dvars(t), then every state variable advanced by
\* its derivative times dt; calc_vars() is a no-op in every class
update(m) == Then(CalcDvarsPy(m), Advance)

\* the value crude_integrate appends for one key
Recorded(x) == IF IsFinite(x) THEN x ELSE None

\* the inner loop had it appended nothing for a value that is not finite
RecordFinite(sol, v) ==
    [k \in (DOMAIN sol) \cup (DOMAIN v) |->
        IF k \in DOMAIN v /\ IsFinite(v[k])
        THEN Append(IF k \in DOMAIN sol THEN sol[k] ELSE <<>>, v[k])
        ELSE IF k \in DOMAIN sol THEN sol[k] ELSE <<>>]

\* the inner loop of crude_integrate: one entry appended for every key of
\* self.keys, which is the live view self.var.keys()
Record(sol, v) ==
    [k \in (DOMAIN sol) \cup (DOMAIN v) |->
        IF k \in DOMAIN v
        THEN Append(IF k \in DOMAIN sol THEN sol[k] ELSE <<>>, Recorded(v[k]))
        ELSE sol[k]]

RecordStep(u) == [u EXCEPT !.solution = Record(u.solution, u.var)]

RECURSIVE crude_integrate(_, _)
CrudeNext(u, i) == IF u.err # NoErr THEN u ELSE crude_integrate(RecordStep(u), i + 1)

crude_integrate(m, i) == IF i > Len(m.times) THEN m ELSE CrudeNext(update(m), i)

\* reset_solutions had it cleared nothing
keep_solutions(m) == m

\* self.solution.clear()
reset_solutions(m) == [m EXCEPT !.solution = EmptyDict, !.ndarray = FALSE]

\* self.times = list(float_range(0, self.param.time, self.param.dt));
\* self.keys = list(self.var.keys())
SetGrid(m) ==
    [m EXCEPT !.times = float_range(0, m.param["time"], m.param["dt"]),
              !.keys = DOMAIN m.var]

\* self.keys = self.var.keys() is a view: it follows self.var
KeysView(m) == [m EXCEPT !.keys = DOMAIN m.var]

CrudeIntegrate(m) == KeysView(crude_integrate(m, 1))

\* run had it cleared the store before the consistency gate
run_reset_first(m) ==
    Then(Then(Then(CheckConsistency(reset_solutions(m)), InitVars), SetGrid),
         scipy_integrate)

\* BaseModel.run
run(m) ==
    Then(Then(Then(Then(CheckConsistency(m), reset_solutions), InitVars), SetGrid),
         scipy_integrate)

\* BaseModel.chunky_run
chunky_run(m) ==
    Then(Then(Then(Then(CheckConsistency(m), reset_solutions), InitVars), SetGrid),
         CrudeIntegrate)

----------------------------------------------------------------------------
(* BaseModel.calc_aux_var_solutions *)

\* the aux names whose trajectory is a numpy column, which has no append
Clash(m) == {k \in DOMAIN m.aux_var : m.ndarray /\ k \in m.keys /\ k \in DOMAIN m.solution}

\* for key, value in self.aux_var.items(): ... self.solution[key].append(value)
AppendAux(m) ==
    IF Clash(m) # {} THEN Failed(m, "AttributeError", CHOOSE k \in Clash(m) : TRUE)
    ELSE [m EXCEPT !.solution =
             [k \in (DOMAIN m.solution) \cup (DOMAIN m.aux_var) |->
                 IF k \in DOMAIN m.aux_var
                 THEN Append(IF k \in DOMAIN m.solution THEN m.solution[k] ELSE <<>>,
                             m.aux_var[k])
                 ELSE m.solution[k]]]

\* the state keys whose trajectory has no entry at index i
Short(m, i) == {k \in m.keys \cap DOMAIN m.solution : Len(m.solution[k]) < i}

\* the replay had it not loaded the recorded state into self.var
LoadNothing(m, i) == m

\* for key in self.keys: if key in self.solution: self.var[key] = self.solution[key][i]
LoadState(m, i) ==
    [m EXCEPT !.var = Load(m.var, [k \in m.keys \cap DOMAIN m.solution |-> m.solution[k][i]])]

ReplayAux(l) == CalcAuxVars(l, l.ndarray)

RECURSIVE Replay(_, _)
ReplayNext(s, i) == IF s.err # NoErr THEN s ELSE Replay(s, i + 1)

Replay(m, i) ==
    IF i > Len(m.times) THEN m
    ELSE IF Short(m, i) # {} THEN Failed(m, "IndexError", CHOOSE k \in Short(m, i) : TRUE)
    ELSE ReplayNext(Then(ReplayAux(LoadState(m, i)), AppendAux), i)

calc_aux_var_solutions(m) ==
    IF m.times = NoTimes THEN Failed(m, "TypeError", "") ELSE Replay(m, 1)

----------------------------------------------------------------------------
(* The instance as a state machine *)

Self ==
    [cls |-> cls, param |-> param, var |-> var, dvar |-> dvar, aux_var |-> aux_var,
     fn |-> fn, aux_var_flows |-> aux_var_flows, param_flows |-> param_flows,
     plots |-> plots, editable_params |-> editable_params,
     editable_max |-> editable_max, times |-> times,
     keys |-> keys, pops |-> pops, solution |-> solution, ndarray |-> ndarray,
     err |-> NoErr]

\* the instance after a call that left it as the record m
Becomes(m) ==
    /\ cls' = m.cls
    /\ param' = m.param
    /\ var' = m.var
    /\ dvar' = m.dvar
    /\ aux_var' = m.aux_var
    /\ fn' = m.fn
    /\ aux_var_flows' = m.aux_var_flows
    /\ param_flows' = m.param_flows
    /\ plots' = m.plots
    /\ editable_params' = m.editable_params
    /\ editable_max' = m.editable_max
    /\ times' = m.times
    /\ keys' = m.keys
    /\ pops' = m.pops
    /\ solution' = m.solution
    /\ ndarray' = m.ndarray
    /\ err' = m.err

\* BaseModel.__init__ followed by the class's setup(), without its call of
\* init_vars()
Bare(c) ==
    [cls |-> c, param |-> SetupParam(c), var |-> EmptyDict, dvar |-> EmptyDict,
     aux_var |-> EmptyDict, fn |-> SetupFn(c), aux_var_flows |-> SetupAuxVarFlows(c),
     param_flows |-> SetupParamFlows(c), plots |-> SetupPlots(c),
     editable_params |-> SetupEditableParams(c),
     editable_max |-> SetupEditableMax(c), times |-> NoTimes, keys |-> NoKeys,
     pops |-> EmptyDict, solution |-> EmptyDict, ndarray |-> FALSE, err |-> NoErr]

\* BaseModel.__init__ followed by the class's setup(); the setup() of the
\* cohort model calls init_vars() before setup_ui()
Constructed(c) == IF c.name = Fathers THEN FathersInitVars(Bare(c)) ELSE Bare(c)

\* the class's own attributes; setup() of the cohort model sets
\* self.integrate_method, the other classes have no such attribute
Class(n) ==
    [name |-> n, var_only |-> FALSE, dvar_only |-> FALSE, aux_shadow |-> FALSE,
     integrate_method |-> IF n = Fathers THEN "euler_integrate" ELSE "no attribute"]

\* the values the configure interface is driven with; "bogus" is a name no
\* class declares
ConfigKeys(c) ==
    IF c.name = Epi
    THEN {"dt", "initialPopulation", "reproductionNumber", "infectiousPeriod", "bogus"}
    ELSE IF c.name = Turchin
    THEN {"dt", "maxCarryCapacity", "stateRevenueAtHalfCapacity"}
    ELSE IF c.name = Goodwin
    THEN {"dt", "accelerator", "productivityRate"}
    ELSE IF c.name = Fathers
    THEN {"dt", "nAge", "delay", "bogus"}
    ELSE {"dt", "preyGrowthRate", "bogus"}

ConfigValues(k) ==
    CASE k = "dt" -> {1, 2}
      [] k = "initialPopulation" -> {0, 4}
      [] k = "reproductionNumber" -> {8, 40}
      [] k = "infectiousPeriod" -> {0, 1}
      [] k \in {"x", "y"} -> {0 - 1, 0, 3, 9}
      [] k = "preyGrowthRate" -> {1, 30}
      [] k = "maxCarryCapacity" -> {3, 9}
      [] k = "stateRevenueAtHalfCapacity" -> {0, 2}
      [] k = "accelerator" -> {0, 3}
      [] k = "productivityRate" -> {0, 1}
      [] k = "nAge" -> {1, 2}
      [] k = "delay" -> {0, 1}
      [] OTHER -> {1}

Is(m) ==
    /\ cls = m.cls
    /\ param = m.param
    /\ var = m.var
    /\ dvar = m.dvar
    /\ aux_var = m.aux_var
    /\ fn = m.fn
    /\ aux_var_flows = m.aux_var_flows
    /\ param_flows = m.param_flows
    /\ plots = m.plots
    /\ editable_params = m.editable_params
    /\ editable_max = m.editable_max
    /\ times = m.times
    /\ keys = m.keys
    /\ pops = m.pops
    /\ solution = m.solution
    /\ ndarray = m.ndarray
    /\ err = m.err

\* the threads that serve slider callbacks
Threads == {"t1", "t2"}

\* nothing outside the instance yet: no graph made, no second instance, the
\* adaptor idle
Alone ==
    /\ graph = NoGraph
    /\ other = NoOther
    /\ is_running = FALSE
    /\ thread = [t \in Threads |-> "idle"]

Init ==
    /\ \E n \in {Epi, Ecology} : Is(Constructed(Class(n)))
    /\ pc = "init"
    /\ Alone

\* model.param[key] = value
ConfigureIn(ks) ==
    \E k \in ks : \E v \in ConfigValues(k) :
        /\ param' = Put(param, k, v)
        /\ pc' = "configure"
        /\ err' = NoErr
        /\ UNCHANGED <<cls, var, dvar, aux_var, fn, aux_var_flows, param_flows, plots,
                       editable_params, editable_max, times, keys, pops, solution, ndarray>>
        /\ UNCHANGED outside

Configure == ConfigureIn(ConfigKeys(cls))

\* float_range returns
GridEnds(m) == m.param["dt"] > 0 \/ ~FLess(0, m.param["time"])

Run ==
    /\ GridEnds(Self)
    /\ Becomes(run(Self))
    /\ pc' = "run"
    /\ UNCHANGED outside

ChunkyRun ==
    /\ GridEnds(Self)
    /\ Becomes(chunky_run(Self))
    /\ pc' = "chunky_run"
    /\ UNCHANGED outside

\* the store is replayed at most MaxReplay times
Replayable ==
    \A k \in DOMAIN solution : Len(solution[k]) < MaxReplay * Len(times)

CalcAuxVarSolutions ==
    /\ times = NoTimes \/ Replayable
    /\ Becomes(calc_aux_var_solutions(Self))
    /\ pc' = "calc_aux_var_solutions"
    /\ UNCHANGED outside

Next == Configure \/ Run \/ ChunkyRun \/ CalcAuxVarSolutions

Spec == Init /\ [][Next]_<<vars>>

----------------------------------------------------------------------------
(* Properties of the instance under Spec *)

\* the last call was p and it returned without raising
Returned(p) == pc = p /\ err = NoErr

Integrated == Returned("run") \/ Returned("chunky_run")

\* every recorded entry of every trajectory is a finite number
AllFinite ==
    \A k \in DOMAIN solution : \A i \in 1..Len(solution[k]) : IsFinite(solution[k][i])

\* the least n with n * b >= a, for b > 0
CeilDiv(a, b) == (a + b - 1) \div b

\* ts is 0, h, 2h, ...
Multiples(ts, h) == \A i \in 1..Len(ts) : ts[i] = (i - 1) * h

\* the trajectories of the names ks each have n entries
Lengths(sol, ks, n) == \A k \in ks : k \in DOMAIN sol /\ Len(sol[k]) = n

Fresh == [Constructed(cls) EXCEPT !.param = param]

\* C9: after run() returns, the store holds exactly one trajectory per state
\* variable of that run, each with one entry per grid point, and nothing
\* else: it is the store a new instance with the same parameters computes,
\* whatever was configured, run or reconstructed before.
C9_OnlyThisRun ==
    Returned("run") =>
        /\ keys = DOMAIN var
        /\ DOMAIN solution = keys
        /\ Lengths(solution, keys, Len(times))
        /\ solution = run(Fresh).solution

\* run() has returned on an instance configured away from its defaults
C9_Witness ==
    /\ Returned("run")
    /\ cls.name = Epi
    /\ param["dt"] = 2 /\ param["reproductionNumber"] = 40
    /\ DOMAIN solution = {"susceptible", "infectious", "recovered"}
    /\ Len(solution["infectious"]) = 2

AuxAt(i) ==
    CalcAuxVars([Self EXCEPT !.var = Load(var, [k \in keys |-> solution[k][i]])],
                TRUE).aux_var

\* C10: after run() and one call of calc_aux_var_solutions every auxiliary
\* variable has a trajectory with as many entries as each state trajectory,
\* entry i being the auxiliary of the state at index i (and None wherever a
\* state trajectory holds None); the state trajectories are as run() left them.
C10_AuxAligned ==
    [][ (Returned("run") /\ pc' = "calc_aux_var_solutions") =>
            /\ err' = NoErr
            /\ \A k \in keys : solution'[k] = solution[k]
            /\ Lengths(solution', DOMAIN aux_var', Len(times))
            /\ \A a \in DOMAIN aux_var' : \A i \in 1..Len(times) :
                   /\ solution'[a][i] = AuxAt(i)[a]
                   /\ (\E k \in keys : solution[k][i] = None) => solution'[a][i] = None
      ]_vars

\* an epidemic run reconstructed once, the auxiliaries differing along the grid
C10_Witness ==
    /\ Returned("calc_aux_var_solutions")
    /\ cls.name = Epi
    /\ Len(times) = 3
    /\ Lengths(solution, {"susceptible", "population", "rateForce", "rn"}, 3)
    /\ solution["rn"][1] # solution["rn"][2]

\* the three compartments recorded at index i are finite numbers
Finite3(i) ==
    /\ IsFinite(solution["susceptible"][i])
    /\ IsFinite(solution["infectious"][i])
    /\ IsFinite(solution["recovered"][i])

\* C3: at every time index of a run of the epidemic model, susceptible +
\* infectious + recovered equals the initial population (wherever the three
\* recorded values are finite numbers, so that the sum is a number).
C3_PopulationConserved ==
    (Integrated /\ cls.name = Epi) =>
        \A i \in 1..Len(times) :
            Finite3(i) =>
                solution["susceptible"][i] + solution["infectious"][i]
                    + solution["recovered"][i] = param["initialPopulation"]

\* an epidemic run in which infection and recovery have moved people
C3_Witness ==
    /\ Returned("run")
    /\ cls.name = Epi
    /\ Len(times) = 3
    /\ Finite3(3)
    /\ solution["susceptible"][3] # solution["susceptible"][1]
    /\ solution["recovered"][3] # solution["recovered"][1]

\* some state variable is not a finite number at index i of the store
NonFiniteAt(i) == \E k \in keys : Len(solution[k]) >= i /\ ~IsFinite(solution[k][i])

\* C4 (as stated): if a state variable first becomes non-finite at grid
\* index K (counted from 1), every state trajectory has at most K entries and
\* every entry from K on is None.
C4_Truncated ==
    Integrated =>
        \A K \in 1..Len(times) :
            (NonFiniteAt(K) /\ \A j \in 1..(K - 1) : ~NonFiniteAt(j)) =>
                \A k \in keys :
                    /\ Len(solution[k]) <= K
                    /\ \A i \in K..Len(solution[k]) : solution[k][i] = None

\* the auxiliary computation of the epidemic model has divided by a zero
\* population
AuxDividesByZero ==
    cls.name = Epi /\ "population" \in DOMAIN aux_var /\ aux_var["population"] = 0

\* C6 (as stated): a run() in which an auxiliary computation divides by zero
\* does not end by raising; it returns normally.
C6_NeverRaises == (pc = "run" /\ AuxDividesByZero) => err = NoErr

\* C7 (as stated): configuring a name the parameter set lacks is rejected
\* with an error and the parameter set is left without that name.
C7_UnknownRejected ==
    [][ pc' = "configure" => DOMAIN param' = DOMAIN param ]_vars

----------------------------------------------------------------------------
(* Subclasses with other declarations: the consistency gate *)

Range(q) == {q[i] : i \in 1..Len(q)}

\* what a subclass's setup() may declare on top of the class's own plots,
\* editable parameters and flows; "nowhere", "nofn" and "norate" are names
\* that no vector holds
DeclPlots(c) ==
    {SetupPlots(c),
     Append(SetupPlots(c), VarsPlot("extra", <<"nowhere">>)),
     Append(SetupPlots(c), FnPlot("nofn"))}

DeclEditableParams(c) ==
    {SetupEditableParams(c), Append(SetupEditableParams(c), "bogus")}

DeclAuxVarFlows(c) ==
    IF c.name = Epi
    THEN {SetupAuxVarFlows(c),
          Append(SetupAuxVarFlows(c), <<"nowhere", "infectious", "rateForce">>),
          Append(SetupAuxVarFlows(c), <<"susceptible", "nowhere", "rateForce">>),
          Append(SetupAuxVarFlows(c), <<"susceptible", "infectious", "norate">>)}
    ELSE {<<>>, << <<"prey", "predator", "norate">> >>}

DeclParamFlows(c) ==
    IF c.name = Epi
    THEN {SetupParamFlows(c),
          Append(SetupParamFlows(c), <<"nowhere", "recovered", "recoverRate">>),
          Append(SetupParamFlows(c), <<"infectious", "recovered", "norate">>)}
    ELSE {<<>>,
          << <<"prey", "predator", "predationRate">> >>,
          << <<"prey", "nowhere", "predationRate">> >>,
          << <<"prey", "predator", "norate">> >>}

Classes ==
    {[Class(n) EXCEPT !.var_only = v, !.dvar_only = d] :
        n \in {Epi, Ecology}, v \in BOOLEAN, d \in BOOLEAN}

\* the "max" of the descriptors es: the class's own, and 1 for an added one
DeclEditableMax(c, es) ==
    [i \in 1..Len(es) |->
        IF i <= Len(SetupEditableMax(c)) THEN SetupEditableMax(c)[i] ELSE 1]

Declared(c, ps, es, af, pf) ==
    [Constructed(c) EXCEPT !.plots = ps, !.editable_params = es,
                           !.editable_max = DeclEditableMax(c, es),
                           !.aux_var_flows = af, !.param_flows = pf]

InitDecl ==
    /\ \E c \in Classes :
         \E ps \in DeclPlots(c) : \E es \in DeclEditableParams(c) :
           \E af \in DeclAuxVarFlows(c) : \E pf \in DeclParamFlows(c) :
             Is(Declared(c, ps, es, af, pf))
    /\ pc = "init"
    /\ Alone

\* the parameters stay where the evaluation at t = 0 divides by no zero
ConfigureDecl == ConfigureIn({"dt", "bogus"})

NextDecl == ConfigureDecl \/ Run \/ ChunkyRun \/ CalcAuxVarSolutions

SpecDecl == InitDecl /\ [][NextDecl]_<<vars>>

PlotVars(ps) == UNION {Range(ps[i].vars) : i \in 1..Len(ps)}
PlotFns(ps) == {ps[i].fn : i \in 1..Len(ps)} \ {""}
Endpoints(flows) == {flows[i][1] : i \in 1..Len(flows)} \cup {flows[i][2] : i \in 1..Len(flows)}
Rates(flows) == {flows[i][3] : i \in 1..Len(flows)}

\* every name the declarations of m use that the vector it must be in lacks
Offending(m) ==
    ((DOMAIN m.var) \ (DOMAIN m.dvar))
    \cup ((DOMAIN m.dvar) \ (DOMAIN m.var))
    \cup (PlotVars(m.plots) \ ((DOMAIN m.var) \cup (DOMAIN m.aux_var)))
    \cup (PlotFns(m.plots) \ DOMAIN m.fn)
    \cup (Range(m.editable_params) \ (DOMAIN m.param))
    \cup ((Endpoints(m.aux_var_flows) \cup Endpoints(m.param_flows)) \ (DOMAIN m.var))
    \cup (Rates(m.aux_var_flows) \ (DOMAIN m.aux_var))
    \cup (Rates(m.param_flows) \ (DOMAIN m.param))

\* C1: a run of a model whose declarations are malformed (a state variable
\* without derivative or a derivative without state variable, a plot naming
\* an unknown variable or an unregistered function, an editable parameter
\* missing from the parameter set, a flow with an unknown endpoint or rate)
\* fails with an error naming an offending key, and neither the time grid
\* nor the trajectory store is touched.
C1_MalformedRejected ==
    [][ (pc' \in {"run", "chunky_run"} /\ Offending(Self') # {}) =>
            /\ err'.type \in {"Exception", "KeyError"}
            /\ err'.key \in Offending(Self')
            /\ times' = times
            /\ keys' = keys
            /\ solution' = solution ]_vars

\* run() has raised for an editable parameter that the parameter set lacks
C1_Witness ==
    /\ pc = "run"
    /\ err = Raise("Exception", "bogus")
    /\ "bogus" \in Range(editable_params) /\ "bogus" \notin DOMAIN param
    /\ times = NoTimes /\ solution = EmptyDict

----------------------------------------------------------------------------
(* add_to_dvars_from_flows on its own *)

Compartments == {"susceptible", "infectious", "recovered"}
DvarValues == {0 - 2, 0, 3}
RateValues == {0 - 1, 0, 5}

FlowsAux ==
    {<<>>,
     << <<"susceptible", "infectious", "rateForce">> >>,
     << <<"susceptible", "infectious", "rateForce">>,
        <<"infectious", "recovered", "rateForce">> >>,
     << <<"recovered", "recovered", "rateForce">> >>}

FlowsParam ==
    {<<>>,
     << <<"infectious", "recovered", "recoverRate">> >>,
     << <<"recovered", "susceptible", "recoverRate">>,
        <<"recovered", "susceptible", "recoverRate">> >>}

WithFlows(d, a, r, af, pf) ==
    [Constructed(Class(Epi)) EXCEPT
        !.var = [k \in Compartments |-> 0], !.dvar = d,
        !.aux_var = [rateForce |-> a],
        !.param = Put(EpiSetupParam, "recoverRate", r),
        !.aux_var_flows = af, !.param_flows = pf]

InitFlows ==
    /\ \E d \in [Compartments -> DvarValues] :
         \E a \in RateValues : \E r \in RateValues :
           \E af \in FlowsAux : \E pf \in FlowsParam :
             Is(WithFlows(d, a, r, af, pf))
    /\ pc = "init"
    /\ Alone

\* self.add_to_dvars_from_flows(), called while every derivative is finite
AddToDvars ==
    /\ \A k \in DOMAIN dvar : IsFinite(dvar[k])
    /\ dvar' = AddToDvarsFromFlows(dvar, aux_var, param, aux_var_flows, param_flows).dvar
    /\ err' = AddToDvarsFromFlows(dvar, aux_var, param, aux_var_flows, param_flows).err
    /\ pc' = "add_to_dvars_from_flows"
    /\ UNCHANGED <<cls, param, var, aux_var, fn, aux_var_flows, param_flows, plots,
                   editable_params, editable_max, times, keys, pops, solution, ndarray>>
    /\ UNCHANGED outside

NextFlows == AddToDvars

SpecFlows == InitFlows /\ [][NextFlows]_<<vars>>

\* the sum of fl[i][3] over the flows whose entry at position e is k
RECURSIVE RateSum(_, _, _)
RateSum(fl, e, k) ==
    IF fl = <<>> THEN 0
    ELSE (IF Head(fl)[e] = k THEN Head(fl)[3] ELSE 0) + RateSum(Tail(fl), e, k)

RECURSIVE Total(_, _)
Total(d, ks) ==
    IF ks = {} THEN 0
    ELSE d[CHOOSE x \in ks : TRUE] + Total(d, ks \ {CHOOSE x \in ks : TRUE})

DeclaredFlows == FlowList(aux_var_flows, param_flows, aux_var, param)

\* C2: applying the declared flows leaves the sum of the derivative entries
\* as it was, and changes each entry by the rates of the flows that enter it
\* minus the rates of the flows that leave it (the results being finite).
C2_FlowsConserve ==
    [][ (pc' = "add_to_dvars_from_flows" /\ err' = NoErr
         /\ \A k \in DOMAIN dvar' : IsFinite(dvar'[k])) =>
            /\ DOMAIN dvar' = DOMAIN dvar
            /\ Total(dvar', DOMAIN dvar') = Total(dvar, DOMAIN dvar)
            /\ \A k \in DOMAIN dvar :
                   dvar'[k] = dvar[k] + RateSum(DeclaredFlows, 2, k)
                                      - RateSum(DeclaredFlows, 1, k) ]_vars

\* flows of a negative rate and of a positive rate have been applied
C2_Witness ==
    /\ pc = "add_to_dvars_from_flows" /\ err = NoErr
    /\ aux_var["rateForce"] = 0 - 1 /\ param["recoverRate"] = 5
    /\ Len(aux_var_flows) = 2 /\ Len(param_flows) = 1
    /\ dvar = [susceptible |-> 1, infectious |-> 0 - 5, recovered |-> 4]

----------------------------------------------------------------------------
(* Reconstruction against the live evaluation *)

\* what the auxiliary and derivative vectors may hold before an evaluation
PriorVectors ==
    {EmptyDict, [population |-> 7, rateForce |-> 7, rn |-> 7, susceptible |-> 7]}

\* the auxiliary vector that calc_dvar_array leaves when called during
\* integration on the state of index i of the store, the auxiliary and
\* derivative vectors holding q before the call
LiveAux(i, q) ==
    calc_dvar_array([Self EXCEPT !.aux_var = q, !.dvar = q],
                    [k \in keys |-> solution[k][i]]).aux_var

\* C11: the auxiliary value that the reconstructor stores at index i is the
\* one calc_aux_vars gives during integration on the same state and
\* parameters, whatever the auxiliary and derivative vectors held before.
C11_ReplayEqualsLive ==
    [][ (Returned("run") /\ Returned("calc_aux_var_solutions")') =>
            \A a \in DOMAIN aux_var' : \A i \in 1..Len(times) : \A q \in PriorVectors :
                /\ a \in DOMAIN LiveAux(i, q)
                /\ solution'[a][i] = LiveAux(i, q)[a] ]_vars

\* an epidemic run reconstructed once, the force of infection differing
\* along the grid
C11_Witness ==
    /\ Returned("calc_aux_var_solutions")
    /\ cls.name = Epi
    /\ ndarray
    /\ Lengths(solution, {"infectious", "rateForce"}, Len(times))
    /\ Len(times) >= 2
    /\ solution["rateForce"][1] # solution["rateForce"][2]

----------------------------------------------------------------------------
(* BaseModel.extract_editable_params *)

\* is_key_in_list(self.editable_params, key=k)
is_key_in_list(p_list, k) == \E i \in 1..Len(p_list) : p_list[i] = k

\* the bound derived from a value that is positive or zero, had the zero
\* case been left out
AutoMaxTimesFive(val) == FMul(5, val)

\* if val > 0: val = 5 * val; elif val == 0: val = 1
AutoMax(val) == IF val = 0 THEN 1 ELSE FMul(5, val)

\* the keys of self.param that pass `k == "dt": continue` and have no
\* descriptor
Needing(m) ==
    {k \in (DOMAIN m.param) \ {"dt"} : ~is_key_in_list(m.editable_params, k)}

\* the loop of extract_editable_params over the keys ks that need a
\* descriptor, in the order of the dict; the Exception it raises names no key
RECURSIVE ExtractLoop(_, _)
ExtractLoop(m, ks) ==
    IF ks = <<>> THEN m
    ELSE IF is_key_in_list(m.editable_params, Head(ks)) THEN ExtractLoop(m, Tail(ks))
    ELSE IF FLess(0, m.param[Head(ks)]) \/ m.param[Head(ks)] = 0
         THEN ExtractLoop([m EXCEPT
                              !.editable_params = Append(@, Head(ks)),
                              !.editable_max = Append(@, AutoMax(m.param[Head(ks)]))],
                          Tail(ks))
    ELSE Failed(m, "Exception", "")

\* the orders in which a dict can hold the keys S
Orders(S) ==
    {q \in [1..Cardinality(S) -> S] : \A i, j \in 1..Cardinality(S) : q[i] = q[j] => i = j}

extract_editable_params(m, ks) == ExtractLoop(m, ks)

\* model.param[k] = v for a name k that no class declares
ConfigureExtra == ConfigureIn({"x", "y", "dt"})

ExtractEditableParams ==
    /\ \E ks \in Orders(Needing(Self)) : Becomes(extract_editable_params(Self, ks))
    /\ pc' = "extract_editable_params"
    /\ UNCHANGED outside

NextExtract == ConfigureExtra \/ ExtractEditableParams

SpecExtract == Init /\ [][NextExtract]_vars

\* the descriptors ks/ms hold the key k exactly once, with the bound b
Described(ks, ms, k, b) ==
    /\ Cardinality({i \in 1..Len(ks) : ks[i] = k}) = 1
    /\ \A i \in 1..Len(ks) : ks[i] = k => ms[i] = b

\* the descriptors that were there are still there, unchanged and in place
Kept ==
    /\ Len(editable_params') >= Len(editable_params)
    /\ SubSeq(editable_params', 1, Len(editable_params)) = editable_params
    /\ SubSeq(editable_max', 1, Len(editable_max)) = editable_max

\* C12 (as amended): extract_editable_params gives every parameter other
\* than dt that has no descriptor a bound of 5 times its value when the
\* value is positive and of 1 when it is zero, and raises when such a value
\* is negative; dt gets no descriptor; the descriptors that exist are kept.
C12_AutoBounds ==
    [][ pc' = "extract_editable_params" =>
            /\ Kept
            /\ (err' = NoErr) <=> (\A k \in Needing(Self) : param[k] >= 0)
            /\ err' = NoErr =>
                 /\ \A k \in Needing(Self) :
                        Described(editable_params', editable_max', k,
                                  IF param[k] = 0 THEN 1
                                  ELSE IF 5 * param[k] > MaxFloat THEN PosInf
                                  ELSE 5 * param[k])
                 /\ Len(editable_params') = Len(editable_params)
                                            + Cardinality(Needing(Self))
            /\ is_key_in_list(editable_params', "dt")
                 <=> is_key_in_list(editable_params, "dt") ]_vars

\* C12 (as stated): every parameter that has no descriptor gets one.
C12_EveryParameter ==
    [][ (pc' = "extract_editable_params" /\ err' = NoErr) =>
            \A k \in DOMAIN param : is_key_in_list(editable_params', k) ]_vars

\* descriptors have been derived for a zero and for a positive parameter
C12_Witness ==
    /\ Returned("extract_editable_params")
    /\ "x" \in DOMAIN param /\ param["x"] = 0
    /\ "y" \in DOMAIN param /\ param["y"] = 3
    /\ Described(editable_params, editable_max, "x", 1)
    /\ Described(editable_params, editable_max, "y", 15)

----------------------------------------------------------------------------
(* BaseModel.make_fn_graph *)

\* the number of intervals the domain is cut into, scaled down from 100
FnPoints == 4

\* the x values at which the call fn(x) raises
Raising(f, xs) == {i \in 1..Len(xs) : CallRaises(f, xs[i], FALSE)}

\* the dataset of make_fn_graph over the x values xs; self.fn[fn] is looked up
\* for each x, so not at all when there is none
FnDataset(m, f, xs) ==
    IF xs = <<>> THEN [graph |-> [xvals |-> xs, yvals |-> <<>>, label |-> f], err |-> NoErr]
    ELSE IF f \notin DOMAIN m.fn THEN [graph |-> NoGraph, err |-> Raise("KeyError", f)]
    ELSE IF Raising(m.fn[f], xs) # {}
    THEN [graph |-> NoGraph, err |-> Raise("ZeroDivisionError", "")]
    ELSE [graph |-> [xvals |-> xs,
                     yvals |-> [i \in 1..Len(xs) |-> Call(m.fn[f], xs[i])],
                     label |-> f],
          err |-> NoErr]

\* d = (xlims[1] - xlims[0]) / 100.0; list(float_range(xlims[0], xlims[1], d))
make_fn_graph(m, f, xlims) ==
    FnDataset(m, f, float_range(xlims[1], xlims[2],
                                FDiv(FSub(xlims[2], xlims[1]), FnPoints)))

\* the attributes of the instance
instance ==
    <<cls, param, var, dvar, aux_var, fn, aux_var_flows, param_flows, plots,
      editable_params, editable_max, times, keys, pops, solution, ndarray>>

\* make_fn_graph("plot-" + plot["fn"], plot["fn"], plot["xlims"]) for a plot
\* descriptor of the instance that has "fn"
MakeFnGraph ==
    \E i \in 1..Len(plots) :
        /\ plots[i].fn # ""
        /\ graph' = make_fn_graph(Self, plots[i].fn, Xlims).graph
        /\ err' = make_fn_graph(Self, plots[i].fn, Xlims).err
        /\ pc' = "make_fn_graph"
        /\ UNCHANGED instance
        /\ UNCHANGED <<other, is_running, thread>>

InitFn ==
    /\ \E n \in {Turchin, Goodwin} : Is(Constructed(Class(n)))
    /\ pc = "init"
    /\ Alone

NextFn == Configure \/ Run \/ ChunkyRun \/ CalcAuxVarSolutions \/ MakeFnGraph

SpecFn == InitFn /\ [][NextFn]_vars

\* no run and no consistency check has been made on the instance
Unrun == times = NoTimes /\ var = EmptyDict /\ dvar = EmptyDict

\* C13: on an instance on which no run and no consistency check has been
\* made, the curve of every function named by a plot descriptor can be read,
\* and reading it changes nothing of the instance.
C13_CurveBeforeRun ==
    [][ (Unrun /\ pc' = "make_fn_graph") =>
            /\ err' = NoErr
            /\ Len(graph'.yvals) = FnPoints
            /\ UNCHANGED instance ]_vars

----------------------------------------------------------------------------
(* DashModelAdaptor.make_model_slider_callback: the slider_callback on the
   threads of the server.  A thread is "idle" (not in the callback),
   "checked" (has read is_running as False), "set" (has set is_running, is in
   the try block before the loop), "applied" (has assigned the slider
   values) or "ran" (has left the try block).  model.run() is taken as one
   step. *)

\* the values a slider can send for the key k of the instance with the
\* parameters p
SliderValues(c, p, k) ==
    IF k \in ConfigKeys(c) THEN ConfigValues(k)
    ELSE IF k \in DOMAIN p THEN {p[k]}
    ELSE {1}

\* for p, val in zip(model.editable_params, values):
\*     model.param[p["key"]] = float(val)
RECURSIVE Applied(_, _, _)
Applied(c, p, ks) ==
    IF ks = <<>> THEN {p}
    ELSE UNION {Applied(c, Put(p, Head(ks), v), Tail(ks)) :
                   v \in SliderValues(c, p, Head(ks))}

At(t, from, to) ==
    /\ thread[t] = from
    /\ thread' = [thread EXCEPT ![t] = to]

\* if self.is_running: raise PreventUpdate
SliderCheck(t) ==
    /\ thread[t] = "idle"
    /\ thread' = [thread EXCEPT ![t] = IF is_running THEN "idle" ELSE "checked"]
    /\ UNCHANGED <<instance, pc, err, graph, other, is_running>>

\* self.is_running = True
SliderSet(t) ==
    /\ At(t, "checked", "set")
    /\ is_running' = TRUE
    /\ UNCHANGED <<instance, pc, err, graph, other>>

SliderApply(t) ==
    /\ At(t, "set", "applied")
    /\ param' \in Applied(cls, param, editable_params)
    /\ pc' = "slider_apply"
    /\ err' = NoErr
    /\ UNCHANGED <<cls, var, dvar, aux_var, fn, aux_var_flows, param_flows, plots,
                   editable_params, editable_max, times, keys, pops, solution, ndarray>>
    /\ UNCHANGED <<graph, other, is_running>>

\* model.run() inside try ... except Exception
SliderRun(t) ==
    /\ At(t, "applied", "ran")
    /\ GridEnds(Self)
    /\ Becomes(run(Self))
    /\ pc' = "run"
    /\ UNCHANGED <<graph, other, is_running>>

\* the reset had it been the last statement of the try block
SliderClearInTry(t) ==
    /\ At(t, "ran", "idle")
    /\ is_running' = (err # NoErr)
    /\ UNCHANGED <<instance, pc, err, graph, other>>

\* self.is_running = False
SliderClear(t) ==
    /\ At(t, "ran", "idle")
    /\ is_running' = FALSE
    /\ UNCHANGED <<instance, pc, err, graph, other>>

slider_callback(t) ==
    \/ SliderCheck(t)
    \/ SliderSet(t)
    \/ SliderApply(t)
    \/ SliderRun(t)
    \/ SliderClear(t)

SliderCallback == \E t \in Threads : slider_callback(t)

\* the models handed to the adaptor: a shipped class, or one that declares
\* an editable parameter "bogus" that its parameter set lacks
InitSlider ==
    /\ \E n \in {Epi, Ecology} : \E es \in DeclEditableParams(Class(n)) :
         Is(Declared(Class(n), SetupPlots(Class(n)), es,
                     SetupAuxVarFlows(Class(n)), SetupParamFlows(Class(n))))
    /\ pc = "init"
    /\ Alone

\* run() called by the owner of the model while no callback is being served
RunDirect ==
    /\ \A t \in Threads : thread[t] = "idle"
    /\ Run

NextSlider == SliderCallback \/ RunDirect

SpecSlider == InitSlider /\ [][NextSlider]_vars

\* the callback on thread t is past the is_running check, in the try block
Executing(t) == thread[t] \in {"set", "applied"}

\* C14: no two callbacks are at once past the is_running check and assigning
\* parameters or in run() on the model.
C14_RunsSerialised ==
    \A t1, t2 \in Threads : (Executing(t1) /\ Executing(t2)) => t1 = t2

\* C20: a model that declares an editable parameter "bogus" which its
\* parameter set lacks has every run() raise, and the declaration error it
\* raises names "bogus"; so has the run() of the slider callback.
C20_UndeclaredKeyRejected ==
    [][ (is_key_in_list(editable_params, "bogus") /\ pc' = "run") =>
            /\ err' # NoErr
            /\ err'.type = "Exception" => err'.key = "bogus" ]_vars

----------------------------------------------------------------------------
(* Two instances: the one the calls are made on and `other`.  An attribute
   of an instance refers to an object; a write into an object is seen through
   every attribute that refers to it. *)

\* BaseModel.__init__ had it taken its dicts from one object per class for
\* the parameter set (a mutable default)
AllocDefault(i, a) == IF a = "param" THEN <<"BaseModel", a>> ELSE <<i, a>>

\* the object that __init__ of the instance i binds to its attribute a:
\* self.a = AttrDict() and self.a = [] make a new object at every call
Alloc(i, a) == <<i, a>>

\* the attribute a of the two instances is one object
Shared(a) == Alloc("this", a) = Alloc("other", a)

\* the other instance after the calls on this one left this one as m: the
\* dicts and lists are written in place; times and keys are rebound
Seen(o, m) ==
    [o EXCEPT !.param = IF Shared("param") THEN m.param ELSE @,
              !.var = IF Shared("var") THEN m.var ELSE @,
              !.dvar = IF Shared("dvar") THEN m.dvar ELSE @,
              !.aux_var = IF Shared("aux_var") THEN m.aux_var ELSE @,
              !.fn = IF Shared("fn") THEN m.fn ELSE @,
              !.solution = IF Shared("solution") THEN m.solution ELSE @]

\* a call on this instance that left it as m
OnThis(m, p) ==
    /\ Becomes(m)
    /\ pc' = p
    /\ other' = Seen(other, m)
    /\ UNCHANGED <<graph, is_running, thread>>

ConfigureTwo ==
    \E v \in ConfigValues("dt") : OnThis([Self EXCEPT !.param = Put(param, "dt", v)],
                                         "configure")

RunTwo == GridEnds(Self) /\ OnThis(run(Self), "run")

ChunkyRunTwo == GridEnds(Self) /\ OnThis(chunky_run(Self), "chunky_run")

CalcAuxVarSolutionsTwo ==
    /\ times = NoTimes \/ Replayable
    /\ OnThis(calc_aux_var_solutions(Self), "calc_aux_var_solutions")

\* the caller turns to the other instance
Turn ==
    /\ Becomes(other)
    /\ other' = Self
    /\ pc' = "turn"
    /\ UNCHANGED <<graph, is_running, thread>>

InitTwo ==
    /\ \E n \in {Epi, Ecology} : Is(Constructed(Class(n)))
    /\ \E n \in {Epi, Ecology} : other = Constructed(Class(n))
    /\ pc = "init"
    /\ graph = NoGraph
    /\ is_running = FALSE
    /\ thread = [t \in Threads |-> "idle"]

NextTwo == ConfigureTwo \/ RunTwo \/ ChunkyRunTwo \/ CalcAuxVarSolutionsTwo \/ Turn

SpecTwo == InitTwo /\ [][NextTwo]_vars

\* C15: a configure, run or reconstruct operation on one instance leaves the
\* parameter set, the state, derivative and auxiliary vectors, the function
\* registry, the time grid and the trajectory store of the other unchanged.
C15_NoSharedState ==
    [][ pc' \in {"configure", "run", "chunky_run", "calc_aux_var_solutions"} =>
            /\ other'.param = other.param
            /\ other'.var = other.var
            /\ other'.dvar = other.dvar
            /\ other'.aux_var = other.aux_var
            /\ other'.fn = other.fn
            /\ other'.times = other.times
            /\ other'.solution = other.solution ]_vars

\* this instance has been run and reconstructed while the other, of the same
\* class, holds the store of a run of its own under another step
C15_Witness ==
    /\ Returned("calc_aux_var_solutions")
    /\ other.cls = cls
    /\ other.solution # EmptyDict
    /\ other.param # param
    /\ other.times # times

----------------------------------------------------------------------------
(* The two integration paths side by side *)

\* the keys of a store with the number of entries of each
Shape(m) == [k \in DOMAIN m.solution |-> Len(m.solution[k])]

\* the instances a and b that the two paths leave raise or complete together
\* and, when they complete, have stores of one shape on one grid
Alike(a, b) ==
    /\ (a.err = NoErr) <=> (b.err = NoErr)
    /\ a.err = NoErr => (Shape(a) = Shape(b) /\ a.times = b.times)

MissingAt(i) ==
    \E k \in DOMAIN solution : Len(solution[k]) >= i /\ solution[k][i] = None

\* C17: in the store of a chunky_run, at the first index where a state
\* variable was not finite every trajectory holds None, and no trajectory has
\* an entry after that index.
C17_HaltsWithSentinels ==
    Returned("chunky_run") =>
        \A K \in 1..Len(times) :
            (MissingAt(K) /\ \A j \in 1..(K - 1) : ~MissingAt(j)) =>
                \A k \in DOMAIN solution :
                    /\ Len(solution[k]) = K
                    /\ solution[k][K] = None

----------------------------------------------------------------------------
(* Every class the package ships *)

InitShipped ==
    /\ \E n \in {Epi, Ecology, Turchin, Goodwin, Fathers} : Is(Constructed(Class(n)))
    /\ pc = "init"
    /\ Alone

SpecShipped == InitShipped /\ [][Next]_vars

\* the instance with its three vectors emptied
Cleared == [Self EXCEPT !.var = EmptyDict, !.dvar = EmptyDict, !.aux_var = EmptyDict]

\* the vectors and the store hold the names they hold in m
SameNames(m) ==
    /\ DOMAIN var' = DOMAIN m.var
    /\ DOMAIN dvar' = DOMAIN m.dvar
    /\ DOMAIN aux_var' = DOMAIN m.aux_var
    /\ DOMAIN solution' = DOMAIN m.solution

\* C18: a run leaves in the state, derivative and auxiliary vectors and in
\* the store only the names that it writes itself, that is the names the
\* same run leaves when it starts from empty vectors.
C18_NoStaleNames ==
    [][ /\ pc' = "run" => SameNames(run(Cleared))
        /\ pc' = "chunky_run" => SameNames(chunky_run(Cleared)) ]_vars

\* C19: once a run, chunky_run or reconstruction has been called, the state
\* vector and the derivative vector have the same keys.
C19_VarKeysAreDvarKeys ==
    pc \in {"run", "chunky_run", "calc_aux_var_solutions"} => DOMAIN var = DOMAIN dvar

----------------------------------------------------------------------------
(* Flows beside the hand-written derivative assignments of calc_dvars *)

\* the assignments that calc_dvars makes to self.dvar by hand: the zeroing
\* loop of the compartmental model, the two rate equations of the
\* predator-prey model
HandWritten(s) ==
    IF s.cls.name = Ecology THEN EcologyCalcDvars(s)
    ELSE [s EXCEPT !.dvar = [k \in (DOMAIN s.dvar) \cup (DOMAIN s.var) |->
                                 IF k \in DOMAIN s.var THEN 0 ELSE s.dvar[k]]]

\* self.add_to_dvars_from_flows()
Flows(s) ==
    LET r == AddToDvarsFromFlows(s.dvar, s.aux_var, s.param,
                                 s.aux_var_flows, s.param_flows)
    IN [s EXCEPT !.dvar = r.dvar, !.err = r.err]

HandRates == {1, 5}

HandFlows ==
    {<<>>,
     << <<"prey", "predator", "preyGrowthRate">> >>,
     << <<"predator", "prey", "digestionRate">>,
        <<"prey", "predator", "preyGrowthRate">> >>}

\* the derivative vector of a new instance is empty; a later evaluation finds
\* the entries of the evaluation before it
HandDvars(ks) == {EmptyDict} \cup [ks -> {0, 3}]

EcologyWithFlows(d, g, pf) ==
    [EcologyInitVars(Constructed(Class(Ecology))) EXCEPT
        !.dvar = d, !.param = Put(EcologySetupParam, "preyGrowthRate", g),
        !.param_flows = pf]

InitHand ==
    /\ \/ \E d \in HandDvars(Compartments) : \E a \in HandRates : \E r \in HandRates :
            \E af \in FlowsAux : \E pf \in FlowsParam :
              Is(WithFlows(d, a, r, af, pf))
       \/ \E d \in HandDvars({"prey", "predator"}) : \E g \in HandRates :
            \E pf \in HandFlows :
              Is(EcologyWithFlows(d, g, pf))
    /\ pc = "init"
    /\ Alone

\* calc_dvars that assigns first and adds the flows afterwards
HandFirst ==
    /\ pc = "init"
    /\ Becomes(HandWritten(Self))
    /\ pc' = "hand"
    /\ UNCHANGED outside

FlowsAfter ==
    /\ pc = "hand" /\ err = NoErr
    /\ Becomes(Flows(Self))
    /\ pc' = "hand_flows"
    /\ UNCHANGED outside

\* calc_dvars that adds the flows first and assigns afterwards
FlowsFirst ==
    /\ pc = "init"
    /\ Becomes(Flows(Self))
    /\ pc' = "flows"
    /\ UNCHANGED outside

HandAfter ==
    /\ pc = "flows" /\ err = NoErr
    /\ Becomes(HandWritten(Self))
    /\ pc' = "flows_hand"
    /\ UNCHANGED outside

NextHand == HandFirst \/ FlowsAfter \/ FlowsFirst \/ HandAfter

SpecHand == InitHand /\ [][NextHand]_vars

\* the state variables that a declared flow leaves or enters
FlowEnds == {f[1] : f \in Range(DeclaredFlows)} \cup {f[2] : f \in Range(DeclaredFlows)}

\* what the flows add to the derivative of k
NetFlow(k) == RateSum(DeclaredFlows, 2, k) - RateSum(DeclaredFlows, 1, k)

\* C21: a state variable that receives a flow and a hand-written assignment
\* in one evaluation ends with the sum of the two as its derivative, in
\* either order of the two, and adding the flows first does not fail.
C21_EitherOrder ==
    /\ pc = "flows" => err = NoErr
    /\ (pc \in {"hand_flows", "flows_hand"} /\ err = NoErr) =>
           \A k \in FlowEnds \cap DOMAIN var :
               dvar[k] = HandWritten(Self).dvar[k] + NetFlow(k)

----------------------------------------------------------------------------
(* The flow list in another order *)

\* the lists that hold the flows of fl in some order
Reordered(fl) == {[i \in 1..Len(fl) |-> fl[p[i]]] : p \in Permutations(1..Len(fl))}

\* the state variables that are the source of one declared flow and the
\* destination of one, or are named by several flows
Shared2(fl) ==
    {k \in Compartments :
        Cardinality({i \in 1..Len(fl) : fl[i][1] = k \/ fl[i][2] = k}) > 1}

\* C22: a state variable that several flows name ends add_to_dvars_from_flows
\* with its derivative of before the call plus every incoming rate minus
\* every outgoing rate, in whatever order the flows are listed (the results
\* being finite).
C22_FlowsAccumulate ==
    [][ (pc' = "add_to_dvars_from_flows" /\ err' = NoErr
         /\ \A k \in DOMAIN dvar' : IsFinite(dvar'[k])) =>
            \A k \in Shared2(DeclaredFlows) :
                /\ dvar'[k] = dvar[k] + NetFlow(k)
                /\ \A fl \in Reordered(DeclaredFlows) :
                       (\A j \in DOMAIN dvar : IsFinite(ApplyFlows(dvar, fl).dvar[j]))
                           => ApplyFlows(dvar, fl).dvar[k] = dvar'[k] ]_vars

\* the infectious compartment has been entered by one flow and left by
\* another, the recovered compartment entered once and left twice
C22_Witness ==
    /\ pc = "add_to_dvars_from_flows" /\ err = NoErr
    /\ Len(aux_var_flows) = 2 /\ Len(param_flows) = 2
    /\ aux_var["rateForce"] = 5 /\ param["recoverRate"] = 5
    /\ dvar = [susceptible |-> 5, infectious |-> 3, recovered |-> 0 - 2]

----------------------------------------------------------------------------
(* The stepping strategy that a model selects *)

\* a subclass whose setup() sets self.integrate_method as the cohort model does
Selecting(c, method) == [c EXCEPT !.integrate_method = method]

InitMethod ==
    /\ \/ Is(Constructed(Class(Fathers)))
       \/ \E n \in {Epi, Ecology} :
            Is(Constructed(Selecting(Class(n), "euler_integrate")))
    /\ pc = "init"
    /\ Alone

SpecMethod == InitMethod /\ [][Next]_vars

\* C23: run() on a model that has selected "euler_integrate" leaves the
\* store that the fixed-step path produces from the same instance.
C23_SelectedMethodRuns ==
    [][ (cls.integrate_method = "euler_integrate" /\ pc' = "run") =>
            /\ solution' = chunky_run(Self).solution
            /\ ndarray' = chunky_run(Self).ndarray
            /\ err' = chunky_run(Self).err ]_vars

----------------------------------------------------------------------------
(* The order of operations at a grid point of the fixed-step path *)

\* the state of index i of the store
StateAt(i) == [k \in keys |-> solution[k][i]]

\* one grid point taken in the order calc_aux_vars, calc_dvars, advance, on
\* the state v
FreshStep(m, v) == Then(Evaluate([m EXCEPT !.var = v], FALSE), Advance)

\* C24: every grid point of the fixed-step path recomputes the auxiliary
\* vector from the current state before the derivatives are computed, so
\* entry i of the store is entry i - 1 advanced by derivatives that read the
\* auxiliary values of entry i - 1.
C24_AuxBeforeDvars ==
    (Returned("chunky_run") /\ keys # NoKeys) =>
        \A i \in 2..Len(times) :
            ((\A k \in keys : IsFinite(solution[k][i - 1]))
              /\ FreshStep(Self, StateAt(i - 1)).err = NoErr) =>
                \A k \in keys :
                    solution[k][i] = Recorded(FreshStep(Self, StateAt(i - 1)).var[k])

----------------------------------------------------------------------------
(* check_consistency called on its own *)

\* self.check_consistency(), called by the caller rather than by run
CheckOnly ==
    /\ Becomes(CheckConsistency(Self))
    /\ pc' = "check_consistency"
    /\ UNCHANGED outside

NextCheck == Configure \/ Run \/ ChunkyRun \/ CheckOnly

SpecCheck == InitShipped /\ [][NextCheck]_vars

\* the instance that check_consistency leaves, whether it returned or raised
Checked(m) == [CheckConsistency(m) EXCEPT !.err = NoErr]

\* what a run produces: the grid, the trajectories and the exception if any
Produced(m) == <<m.times, m.solution, m.ndarray, m.err>>

\* C25: run() produces the same grid and trajectories from an instance and
\* from the same instance after one more check_consistency, whatever
\* vectors, trajectories and earlier checks the instance already carries.
C25_CheckLeavesNoTrace ==
    Produced(run(Self)) = Produced(run(Checked(Self)))

\* check_consistency has run on an instance that still carries the vectors
\* and trajectories of an earlier successful run
C25_Witness ==
    /\ pc = "check_consistency" /\ err = NoErr
    /\ cls.name = Epi
    /\ ndarray /\ solution # EmptyDict /\ times # NoTimes
    /\ dvar # EmptyDict /\ aux_var # EmptyDict
    /\ run(Self).err = NoErr

----------------------------------------------------------------------------
(* The slider callback runs to its end *)

\* the steps of a callback that is past its is_running check, run() apart
SliderProceeds(t) == SliderSet(t) \/ SliderApply(t) \/ SliderClear(t)

\* WF_vars(SliderRun(t)), with ENABLED written as the guard of SliderRun
SliderRunFair(t) ==
    \/ []<>~(thread[t] = "applied" /\ GridEnds(Self))
    \/ []<><<SliderRun(t)>>_vars

\* a callback that the server has started goes on to its return; when a
\* request arrives, and when the owner calls run(), is left open
SpecSliderFair ==
    SpecSlider /\ \A t \in Threads : WF_vars(SliderProceeds(t)) /\ SliderRunFair(t)

\* the callback on thread t has set is_running and has not yet reset it
Holding(t) == thread[t] \in {"set", "applied", "ran"}

\* C26: is_running is True only while a callback that set it has not yet
\* reset it, also after run() raised, and a set flag is always reset, so
\* that the check of a later callback passes again.
C26_IsRunningReset ==
    /\ [](is_running => \E t \in Threads : Holding(t))
    /\ is_running ~> ~is_running

\* run() has raised inside the try block of a callback, which is about to
\* reset the flag
C26_Witness ==
    /\ thread["t1"] = "ran" /\ thread["t2"] = "idle"
    /\ pc = "run" /\ err # NoErr
    /\ is_running

----------------------------------------------------------------------------
(* calc_aux_var_solutions called again *)

\* C27: after any number of calls of calc_aux_var_solutions that follow one
\* run, every auxiliary trajectory has one entry per grid point.
C27_ReplayIdempotent ==
    Returned("calc_aux_var_solutions") =>
        \A a \in (DOMAIN aux_var) \ keys :
            a \in DOMAIN solution /\ Len(solution[a]) = Len(times)

----------------------------------------------------------------------------
(* The state trajectories under calc_aux_var_solutions *)

\* a subclass whose calc_aux_vars names an auxiliary variable as a state
\* variable is named
InitShadow ==
    /\ \E n \in {Epi, Ecology} :
         Is(Constructed([Class(n) EXCEPT !.aux_shadow = TRUE]))
    /\ pc = "init"
    /\ Alone

SpecShadow == InitShadow /\ [][Next]_vars

\* the trajectories of the state variables
StateSolutions(ks, sol) == [k \in ks \cap DOMAIN sol |-> sol[k]]

\* C28: calc_aux_var_solutions, when it returns, has left the trajectory of
\* every state variable as the run stored it.
C28_StateTrajectoriesKept ==
    [][ (pc' = "calc_aux_var_solutions" /\ err' = NoErr /\ keys # NoKeys) =>
            StateSolutions(keys, solution') = StateSolutions(keys, solution) ]_vars

----------------------------------------------------------------------------
(* The time grid for any duration and step *)

GridValues == {0 - 1, 0, 1, 3}

\* model.param.time = value, model.param.dt = value
ConfigureGrid ==
    /\ pc # "float_range"
    /\ \E k \in {"time", "dt"} : \E v \in GridValues : param' = Put(param, k, v)
    /\ pc' = "configure"
    /\ err' = NoErr
    /\ UNCHANGED <<cls, var, dvar, aux_var, fn, aux_var_flows, param_flows, plots,
                   editable_params, editable_max, times, keys, pops, solution, ndarray>>
    /\ UNCHANGED outside

\* run() up to the statement that builds the grid
BeforeGrid(m) == Then(Then(CheckConsistency(m), reset_solutions), InitVars)

\* run() reaches list(float_range(0, time, dt)) and its loop has no end
Hangs(m) == BeforeGrid(m).err = NoErr /\ ~GridEnds(m)

\* run(), returning or raising
RunEnds ==
    /\ pc # "float_range"
    /\ ~Hangs(Self)
    /\ Becomes(run(Self))
    /\ pc' = "run"
    /\ UNCHANGED outside

\* run(), staying in the loop of float_range
RunHangs ==
    /\ pc # "float_range"
    /\ Hangs(Self)
    /\ Becomes(BeforeGrid(Self))
    /\ pc' = "float_range"
    /\ UNCHANGED outside

NextGrid == ConfigureGrid \/ RunEnds \/ RunHangs

SpecGrid == Init /\ [][NextGrid]_vars

\* C29: run() never stays in the loop that builds the time grid, whatever
\* duration and step the parameter set holds.
C29_GridTerminates == pc # "float_range"

----------------------------------------------------------------------------
(* The entries of a state trajectory against the grid *)

\* the state that init_vars computes from the current parameters
InitialState(m) == InitVars(m).var

\* C30: after either stepping path, entry 0 of every state trajectory is the
\* state that init_vars computes from the parameters of the run.
C30_EntryZeroIsInitial ==
    (Integrated /\ keys # NoKeys /\ times # <<>>) =>
        \A k \in keys :
            solution[k][1] = Recorded(InitialState(Self)[k])

====
